---- MODULE Spec2Model ----
(***************************************************************************)
(* Model of the Mapiry SDK request core: the client dispatcher            *)
(* (client.py), the retry policy (utils.py), the status-to-error mapping  *)
(* and the query builders (endpoints/*.py).                               *)
(*                                                                         *)
(* Python values are represented as follows.                               *)
(*   dict            a function whose DOMAIN is the set of keys present    *)
(*   None / Optional <<>> for None, <<v>> for a value v                     *)
(*   exception       a record [kind, status_code, field, at]; "at" is the  *)
(*                   index of the attempt that raised it (-1 outside the   *)
(*                   attempts) and stands for the identity of the object   *)
(*   builder object  a reference <<client, family, serial>>; serial counts *)
(*                   the constructions made for that accessor slot         *)
(***************************************************************************)
EXTENDS Integers, Sequences, FiniteSets, TLC

VARIABLES
    max_retries,    \* MapillaryClient.max_retries
    retry_backoff,  \* MapillaryClient.retry_backoff
    clients,        \* the constructed clients
    used,           \* accessor slots <<client, family>> the application calls
    endpoints,      \* client -> family -> cached builder reference (<<>> = None)
    created,        \* client -> family -> number of builders constructed
    builders,       \* builder reference -> [filters, fields]
    cur,            \* what the last accessor call returned to the caller
    pc,             \* "idle", "request", "done"
    op,             \* the public operation in progress
    args,           \* the arguments it was called with
    attempt,        \* loop variable of retry_with_backoff
    sent,           \* what request() hands to the transport
    log,            \* transport calls and sleeps of the operation in progress
    reply,          \* what the transport did in the most recent attempt
    last,           \* result of the most recent attempt
    outcome,        \* what the operation in progress gave its caller
    caller,         \* the params mapping the caller of request() passed, as it is now
    threads         \* thread -> where it stands in an accessor call, and what it got

vars == <<max_retries, retry_backoff, clients, used, endpoints, created,
          builders, cur, pc, op, args, attempt, sent, log, reply, last, outcome,
          caller, threads>>

----------------------------------------------------------------------------
(* Bounds *)

MaxRetries == 3
MaxBackoff == 2
MaxOpRetries == 1

----------------------------------------------------------------------------
(* Python values *)

None == <<>>
Some(v) == <<v>>
EmptyDict == [k \in {} |-> 0]
Put(d, k, v) == [x \in (DOMAIN d) \cup {k} |-> IF x = k THEN v ELSE d[x]]

Exc(kind, status, at) ==
    [kind |-> kind, status_code |-> status, field |-> "", at |-> at]
NoExc == Exc("none", 0, -1)
\* ValidationError(message, field), raised outside the attempts
ValidationError(field) ==
    [kind |-> "ValidationError", status_code |-> 0, field |-> field, at |-> -1]
ValueError == Exc("ValueError", 0, -1)

\* the seven error kinds of exceptions.py (all derive from MapiryError)
TypedErrors == {"AuthenticationError", "ValidationError", "NetworkError",
                "TimeoutError", "RateLimitError", "NotFoundError", "APIError"}

\* result of evaluating a Python expression: a value or a raised exception
Value(kind, at) == [kind |-> kind, at |-> at, ref |-> None, data |-> None]
\* a value whose content matters: a parsed entity, a response, a list
DataValue(kind, data) == [kind |-> kind, at |-> -1, ref |-> None, data |-> Some(data)]
\* a method that returns self
BuilderValue(ref) == [kind |-> "builder", at |-> -1, ref |-> ref, data |-> None]
NoValue == Value("novalue", -1)
Returns(v) == [ok |-> TRUE, value |-> v, exc |-> NoExc]
Raises(e) == [ok |-> FALSE, value |-> NoValue, exc |-> e]
NoResult == [ok |-> FALSE, value |-> NoValue, exc |-> NoExc]

----------------------------------------------------------------------------
(* The transport (requests.Session.request): it returns a response or     *)
(* raises.  A response is its status and the shape of its body.           *)

Statuses == {200, 204, 302, 401, 403, 404, 429, 500}

\* body shapes: a JSON object {"error": {"message": m}}, a JSON object
\* without a usable message ({} or {"error": {}}), a JSON object whose
\* "error" is not an object ({"error": "text"}), a JSON value that is not
\* an object ([] or null), and bytes that are not JSON
Bodies == {"object_message", "object", "object_error_text", "nonobject", "nonjson"}

Responses == [status : Statuses, body : Bodies]

\* what the transport can raise: requests.exceptions.ReadTimeout,
\* ConnectTimeout (a subclass of both ConnectionError and Timeout),
\* ConnectionError, another RequestException, and an exception that is not
\* a RequestException (a session passed to the constructor may raise any)
TransportRaises == {"ReadTimeout", "ConnectTimeout", "ConnectionError",
                    "RequestException", "RuntimeError"}

IsTimeout(k) == k \in {"ReadTimeout", "ConnectTimeout"}
IsConnectionError(k) == k \in {"ConnectTimeout", "ConnectionError"}
IsRequestException(k) ==
    k \in {"ReadTimeout", "ConnectTimeout", "ConnectionError", "RequestException"}

NoResponse == [status |-> 0, body |-> "nonjson"]
Responds(resp) == [raises |-> FALSE, response |-> resp, kind |-> "none"]
TransportRaise(k) == [raises |-> TRUE, response |-> NoResponse, kind |-> k]
NoReply == Responds(NoResponse)

TransportOutcomes ==
    {Responds(resp) : resp \in Responses} \cup {TransportRaise(k) : k \in TransportRaises}

----------------------------------------------------------------------------
(* MapillaryClient._handle_response *)

JsonParses(body) == body # "nonjson"

\* error_data.get("error", {}).get("message", "Unknown error") raises
\* AttributeError when error_data, or its "error" entry, has no get()
ErrorMessageRaises(body) == body \in {"nonobject", "object_error_text"}

\* a handler that lets the ValueError of response.json() escape
_handle_response_strict(resp, at) ==
    IF 200 <= resp.status /\ resp.status < 300
    THEN IF JsonParses(resp.body)
         THEN Returns(Value(IF resp.body = "nonobject" THEN "json_nonobject"
                            ELSE "json_object", at))
         ELSE Raises(Exc("ValueError", 0, at))
    ELSE IF JsonParses(resp.body) /\ ErrorMessageRaises(resp.body)
         THEN Raises(Exc("AttributeError", 0, at))
    ELSE IF resp.status = 401 THEN Raises(Exc("AuthenticationError", 0, at))
    ELSE IF resp.status = 403 THEN Raises(Exc("AuthenticationError", 0, at))
    ELSE IF resp.status = 404 THEN Raises(Exc("NotFoundError", 0, at))
    ELSE IF resp.status = 429 THEN Raises(Exc("RateLimitError", 0, at))
    ELSE Raises(Exc("APIError", resp.status, at))

\* a 2xx response gives the parsed JSON value, or, when the body is not
\* JSON, the wrapper {"content": response.content, "headers": ...}
_handle_response(resp, at) ==
    IF 200 <= resp.status /\ resp.status < 300
    THEN IF JsonParses(resp.body)
         THEN Returns(Value(IF resp.body = "nonobject" THEN "json_nonobject"
                            ELSE "json_object", at))
         ELSE Returns(Value("wrapper", at))
    ELSE IF JsonParses(resp.body) /\ ErrorMessageRaises(resp.body)
         THEN Raises(Exc("AttributeError", 0, at))
    ELSE IF resp.status = 401 THEN Raises(Exc("AuthenticationError", 0, at))
    ELSE IF resp.status = 403 THEN Raises(Exc("AuthenticationError", 0, at))
    ELSE IF resp.status = 404 THEN Raises(Exc("NotFoundError", 0, at))
    ELSE IF resp.status = 429 THEN Raises(Exc("RateLimitError", 0, at))
    ELSE Raises(Exc("APIError", resp.status, at))

----------------------------------------------------------------------------
(* MapillaryClient.request.make_request: one attempt *)

\* the except clauses of make_request, in their order
ExceptClauses(k, at) ==
    IF IsTimeout(k) THEN Raises(Exc("TimeoutError", 0, at))
    ELSE IF IsConnectionError(k) THEN Raises(Exc("NetworkError", 0, at))
    ELSE IF IsRequestException(k) THEN Raises(Exc("NetworkError", 0, at))
    ELSE Raises(Exc(k, 0, at))

make_request(o, at) ==
    IF o.raises THEN ExceptClauses(o.kind, at)
    ELSE _handle_response(o.response, at)

----------------------------------------------------------------------------
(* retry_with_backoff: the body of one iteration of its loop *)

\* a backoff whose exponent counts the attempts from 1
WaitTimeFromOne(backoff_factor, n) == backoff_factor * (2 ^ (n + 1))

WaitTime(backoff_factor, n) == backoff_factor * (2 ^ n)

\* a loop that gives up one attempt early
retry_with_backoff_short(n, retries, backoff_factor, r) ==
    IF r.ok THEN [next |-> "return", result |-> r, wait |-> 0]
    ELSE IF n >= retries - 1 THEN [next |-> "raise", result |-> Raises(r.exc), wait |-> 0]
    ELSE [next |-> "sleep", result |-> r, wait |-> WaitTime(backoff_factor, n)]

\* a loop that retries transient failures only
retry_with_backoff_transient(n, retries, backoff_factor, r) ==
    IF r.ok THEN [next |-> "return", result |-> r, wait |-> 0]
    ELSE IF n = retries \/ r.exc.kind \notin {"NetworkError", "TimeoutError", "RateLimitError"}
         THEN [next |-> "raise", result |-> Raises(r.exc), wait |-> 0]
    ELSE [next |-> "sleep", result |-> r, wait |-> WaitTime(backoff_factor, n)]

\* a loop that ends after its last failure without raising
retry_with_backoff_silent(n, retries, backoff_factor, r) ==
    IF r.ok THEN [next |-> "return", result |-> r, wait |-> 0]
    ELSE IF n = retries THEN [next |-> "raise", result |-> NoResult, wait |-> 0]
    ELSE [next |-> "sleep", result |-> r, wait |-> WaitTime(backoff_factor, n)]

\* r is the result of func() in iteration n
retry_with_backoff(n, retries, backoff_factor, r) ==
    IF r.ok THEN [next |-> "return", result |-> r, wait |-> 0]
    ELSE IF n = retries THEN [next |-> "raise", result |-> Raises(r.exc), wait |-> 0]
    ELSE [next |-> "sleep", result |-> r, wait |-> WaitTime(backoff_factor, n)]

\* a loop whose body runs at least once
LoopRunsAlways(retries) == TRUE

\* range(max_retries + 1) is empty when max_retries < 0: the loop body
\* never runs and the function returns None
LoopRuns(retries) == 0 < retries + 1

----------------------------------------------------------------------------
(* MapillaryClient.request: the URL, headers and parameters it sends *)

ApiKey == "key"

\* a URL is its host and the segments of its path
BASE_URL == [host |-> "graph.mapillary.com", path |-> <<>>]
VECTOR_TILES_URL == [host |-> "tiles.mapillary.com", path |-> <<"maps", "vtp">>]
COVERAGE_TILES_URL ==
    [host |-> "tiles.mapillary.com", path |-> <<"maps", "vtp", "mly1_public", "2">>]
COMPUTED_COVERAGE_TILES_URL ==
    [host |-> "tiles.mapillary.com",
     path |-> <<"maps", "vtp", "mly1_computed_public", "2">>]
MAP_FEATURES_POINTS_URL ==
    [host |-> "tiles.mapillary.com",
     path |-> <<"maps", "vtp", "mly_map_feature_point", "2">>]
MAP_FEATURES_TRAFFIC_SIGNS_URL ==
    [host |-> "tiles.mapillary.com",
     path |-> <<"maps", "vtp", "mly_map_feature_traffic_sign", "2">>]

\* urllib.parse.urljoin(base, endpoint) for an endpoint that begins with
\* "/" (every endpoint of the SDK does): the endpoint replaces the whole
\* path of the base
urljoin(base, endpoint) == [host |-> base.host, path |-> endpoint]

\* base_url or self.BASE_URL
BaseOrDefault(base_url) == IF base_url = None THEN BASE_URL ELSE base_url[1]

\* f"OAuth {self.api_key}"
OAuth(key) == "OAuth " \o key

\* the default headers __init__ writes into the session, whether the
\* session is its own or the caller's
SessionHeaders ==
    Put(Put(Put(Put(EmptyDict, "Authorization", OAuth(ApiKey)),
                "User-Agent", "Mapiry/1.0.0 Python SDK"),
            "Accept", "application/json"),
        "Content-Type", "application/json")

RequestHeaders(use_oauth_header) ==
    IF use_oauth_header THEN Put(EmptyDict, "Authorization", OAuth(ApiKey))
    ELSE EmptyDict

\* the headers session.request(..., headers=headers) puts on the wire: the
\* session's defaults, overridden by the headers of the request
TransportHeaders(req) ==
    [k \in (DOMAIN SessionHeaders) \cup (DOMAIN req.headers) |->
        IF k \in DOMAIN req.headers THEN req.headers[k] ELSE SessionHeaders[k]]

\* params stays None in header mode; in query-token mode None becomes {}
\* and the credential is written into the mapping
RequestParams(params, use_oauth_header) ==
    IF use_oauth_header THEN params
    ELSE Some(Put(IF params = None THEN EmptyDict ELSE params[1],
                  "access_token", ApiKey))

\* the caller's mapping after request() has prepared its parameters:
\* params["access_token"] = self.api_key writes into the mapping that was
\* passed in, not into a copy
CallerParams(params, use_oauth_header) ==
    IF params = None THEN None ELSE RequestParams(params, use_oauth_header)

BuildRequest(method, endpoint, params, base_url, use_oauth_header) ==
    [method  |-> method,
     url     |-> urljoin(BaseOrDefault(base_url), endpoint),
     params  |-> RequestParams(params, use_oauth_header),
     headers |-> RequestHeaders(use_oauth_header)]

NoRequest == [method |-> "none", url |-> [host |-> "", path |-> <<>>],
              params |-> None, headers |-> EmptyDict]

----------------------------------------------------------------------------
(* Public operations in progress *)

\* name: the public method; ref: the builder it was called on (None for the
\* client's own request); parse: what the method does with the response;
\* id: its id argument ("-" when it has none)
Op(name, ref, parse, id) == [name |-> name, ref |-> ref, parse |-> parse, id |-> id]
NoOp == Op("none", None, "raw", "-")

\* the .get() calls of the from_dict parsers raise AttributeError on a
\* response value that is not a mapping
HasGet(v) == v.kind \in {"json_object", "wrapper"}

\* what the public method does with the result r of client.request; the
\* tile methods return response_data.get("content", b""): the body bytes
\* of the wrapper, b"" for a JSON object
Complete(o, r) ==
    IF ~r.ok THEN r
    ELSE IF o.parse = "raw" THEN r
    ELSE IF ~HasGet(r.value) THEN Raises(Exc("AttributeError", 0, -1))
    ELSE IF o.parse = "content" /\ r.value.kind # "wrapper"
         THEN Returns(Value("empty_bytes", -1))
    ELSE Returns(Value(o.parse, r.value.at))

\* the call of retry_with_backoff at the end of request()
StartRequest(o, req) ==
    /\ op' = o
    /\ sent' = req
    /\ attempt' = 0
    /\ log' = <<>>
    /\ reply' = NoReply
    /\ last' = NoResult
    /\ IF LoopRuns(max_retries)
       THEN pc' = "request" /\ outcome' = NoResult
       ELSE pc' = "done" /\ outcome' = Complete(o, Returns(Value("none", -1)))

ParamsInputs == {None, Some(EmptyDict), Some(Put(EmptyDict, "limit", 5))}
BaseUrlInputs == {None, Some(VECTOR_TILES_URL)}
EndpointInputs == {<<"images">>}

\* client.request(method, endpoint, params, base_url=..., use_oauth_header=...)
Request(params, base_url, use_oauth_header) ==
    /\ pc = "idle"
    /\ \E e \in EndpointInputs :
         StartRequest(Op("request", None, "raw", "-"),
                      BuildRequest("GET", e, params, base_url, use_oauth_header))
    /\ args' = <<params, base_url, use_oauth_header>>
    /\ caller' = CallerParams(params, use_oauth_header)
    /\ UNCHANGED <<threads, max_retries, retry_backoff, clients, used, endpoints,
                   created, builders, cur>>

CallEvent(n, ok) == [ev |-> "call", n |-> n, ok |-> ok]
SleepEvent(d) == [ev |-> "sleep", n |-> d, ok |-> FALSE]
\* session.get(url) of download_image, outside request()
FetchEvent(ok) == [ev |-> "fetch", n |-> 0, ok |-> ok]

\* bodies of an image record: its properties hold a URL in every thumbnail
\* field, in "thumb_256_url" alone, or the empty string in every one
ThumbBodies == {"object_thumbs", "object_thumb_256", "object_thumb_empty"}

\* the URL a record holds in a thumbnail field ("" is the URL of no host)
ThumbUrl(field) == [host |-> "cdn", path |-> <<field>>]
EmptyUrl == [host |-> "", path |-> <<>>]

\* getattr(image, size, None) on the Image parsed from a response body
ThumbValue(body, size) ==
    IF body = "object_thumbs" THEN Some(ThumbUrl(size))
    ELSE IF body = "object_thumb_256" /\ size = "thumb_256_url" THEN Some(ThumbUrl(size))
    ELSE IF body = "object_thumb_empty" THEN Some(EmptyUrl)
    ELSE None

\* "if not url" that lets the empty string pass
MissingUrlNone(url) == url = None

\* "if not url": the attribute is None or empty
MissingUrl(url) == url = None \/ url[1] = EmptyUrl

\* where a public method stands when client.request has returned r from
\* the reply rep: download_image goes on to its byte fetch when get_by_id
\* gave an image whose size attribute holds a URL
AfterRequest(o, a, r, rep) ==
    IF o.name # "download_image" THEN [pc |-> "done", outcome |-> Complete(o, r)]
    ELSE IF ~Complete(o, r).ok THEN [pc |-> "done", outcome |-> Complete(o, r)]
    ELSE IF MissingUrl(ThumbValue(rep.response.body, a[2]))
         THEN [pc |-> "done", outcome |-> Raises(ValueError)]
    ELSE [pc |-> "fetch", outcome |-> NoResult]

\* one iteration of the retry loop: the transport call, the handling of
\* its response and, unless the loop ends, the sleep
Attempt(o) ==
    /\ pc = "request"
    /\ LET r == make_request(o, attempt)
           d == retry_with_backoff(attempt, max_retries, retry_backoff, r)
       IN /\ reply' = o
          /\ last' = r
          /\ IF d.next = "sleep"
             THEN /\ log' = log \o <<CallEvent(attempt, r.ok), SleepEvent(d.wait)>>
                  /\ attempt' = attempt + 1
                  /\ UNCHANGED <<pc, outcome>>
             ELSE /\ log' = Append(log, CallEvent(attempt, r.ok))
                  /\ pc' = AfterRequest(op, args, d.result, o).pc
                  /\ outcome' = AfterRequest(op, args, d.result, o).outcome
                  /\ UNCHANGED attempt
    /\ UNCHANGED <<caller, threads, max_retries, retry_backoff, clients, used, endpoints,
                   created, builders, cur, op, args, sent>>

\* response.raise_for_status() and response.content: what the byte
\* fetch gives for the transport outcome o
FetchResult(o) ==
    IF o.raises THEN Raises(Exc(o.kind, 0, -1))
    ELSE IF 400 <= o.response.status /\ o.response.status < 600
         THEN Raises(Exc("HTTPError", o.response.status, -1))
    ELSE Returns(Value("content", -1))

\* the byte fetch of download_image: self.client.session.get(url), once
Fetch(o) ==
    /\ pc = "fetch"
    /\ sent' = [method |-> "GET", url |-> ThumbValue(reply.response.body, args[2])[1],
                params |-> None, headers |-> EmptyDict]
    /\ reply' = o
    /\ last' = FetchResult(o)
    /\ log' = Append(log, FetchEvent(FetchResult(o).ok))
    /\ pc' = "done"
    /\ outcome' = FetchResult(o)
    /\ UNCHANGED <<caller, threads, max_retries, retry_backoff, clients, used, endpoints,
                   created, builders, cur, op, args, attempt>>

\* the caller receives the result or the exception
Return ==
    /\ pc = "done"
    /\ pc' = "idle"
    /\ op' = NoOp
    /\ args' = <<>>
    /\ sent' = NoRequest
    /\ attempt' = 0
    /\ log' = <<>>
    /\ reply' = NoReply
    /\ last' = NoResult
    /\ outcome' = NoResult
    /\ caller' = None
    /\ UNCHANGED <<threads, max_retries, retry_backoff, clients, used, endpoints,
                   created, builders, cur>>

----------------------------------------------------------------------------
(* The resource accessors and the builders *)

Clients == {1, 2}
Families == {"images", "sequences", "detections", "map_features",
             "organizations", "vector_tiles"}

\* slot: the accessor <<client, family>> that was called; ref: the builder
\* it returned; cached: whether that builder existed before the call
Cur(slot, ref, cached) == [slot |-> slot, ref |-> ref, cached |-> cached]
NoCur == Cur(<<>>, None, FALSE)

NoEndpoints == [c \in Clients |-> [f \in Families |-> None]]
NoneCreated == [c \in Clients |-> [f \in Families |-> 0]]

InitIdle ==
    /\ endpoints = NoEndpoints
    /\ created = NoneCreated
    /\ builders = EmptyDict
    /\ cur = NoCur
    /\ pc = "idle"
    /\ op = NoOp
    /\ args = <<>>
    /\ attempt = 0
    /\ sent = NoRequest
    /\ log = <<>>
    /\ reply = NoReply
    /\ last = NoResult
    /\ outcome = NoResult
    /\ caller = None
    /\ threads = <<>>

\* the test "if self._images is None" of an accessor, constructing always
NeedsBuilderAlways(e) == TRUE

\* the test "if self._images is None" of the six accessors
NeedsBuilder(e) == e = None

\* the state an endpoint's __init__ gives a builder (VectorTileEndpoint
\* keeps no filters and no fields: its mapping and list stay empty)
NewBuilder(c) == [client |-> c, filters |-> EmptyDict, fields |-> <<>>]

\* client.images(), client.sequences(), ...: the accessor of family f
Accessor(c, f) ==
    /\ pc = "idle"
    /\ c \in clients
    /\ <<c, f>> \in used
    /\ IF NeedsBuilder(endpoints[c][f])
       THEN LET ref == <<c, f, created[c][f] + 1>>
            IN /\ endpoints' = [endpoints EXCEPT ![c][f] = ref]
               /\ created' = [created EXCEPT ![c][f] = @ + 1]
               /\ builders' = Put(builders, ref, NewBuilder(c))
               /\ cur' = Cur(<<c, f>>, ref, FALSE)
       ELSE /\ cur' = Cur(<<c, f>>, endpoints[c][f], TRUE)
            /\ UNCHANGED <<endpoints, created, builders>>
    /\ UNCHANGED <<caller, threads, max_retries, retry_backoff, clients, used, pc, op, args,
                   attempt, sent, log, reply, last, outcome>>

Family(ref) == ref[2]
FilterFamilies == {"images", "sequences", "detections", "map_features"}
BuilderFamilies == FilterFamilies \cup {"organizations"}

----------------------------------------------------------------------------
(* Validators of utils.py *)

\* range checks that shut out the end points
validate_coordinates_open(latitude, longitude) ==
    IF ~(-90 < latitude /\ latitude < 90) THEN ValidationError("latitude")
    ELSE IF ~(-180 < longitude /\ longitude < 180) THEN ValidationError("longitude")
    ELSE NoExc

\* validate_coordinates for numeric arguments: NoExc when it returns
validate_coordinates(latitude, longitude) ==
    IF ~(-90 <= latitude /\ latitude <= 90) THEN ValidationError("latitude")
    ELSE IF ~(-180 <= longitude /\ longitude <= 180) THEN ValidationError("longitude")
    ELSE NoExc

\* a bbox check that accepts a box of no width or no height
validate_bbox_flat(west, south, east, north) ==
    IF validate_coordinates(south, west) # NoExc THEN validate_coordinates(south, west)
    ELSE IF validate_coordinates(north, east) # NoExc THEN validate_coordinates(north, east)
    ELSE IF west > east THEN ValidationError("bbox")
    ELSE IF south > north THEN ValidationError("bbox")
    ELSE NoExc

\* validate_bbox for numeric arguments: the two corners, then the order
validate_bbox(west, south, east, north) ==
    IF validate_coordinates(south, west) # NoExc THEN validate_coordinates(south, west)
    ELSE IF validate_coordinates(north, east) # NoExc THEN validate_coordinates(north, east)
    ELSE IF west >= east THEN ValidationError("bbox")
    ELSE IF south >= north THEN ValidationError("bbox")
    ELSE NoExc

\* the argument of validate_compass_angle: a number, or a tuple of numbers
Number(a) == [type |-> "number", v |-> <<a>>]
Tuple(t) == [type |-> "tuple", v |-> t]

\* a range check without the test of line 129: every descending range passes
validate_compass_angle_any(angle) ==
    IF angle.type = "number"
    THEN IF ~(0 <= angle.v[1] /\ angle.v[1] <= 360)
         THEN ValidationError("compass_angle") ELSE NoExc
    ELSE IF angle.type = "tuple" /\ Len(angle.v) = 2
    THEN LET min_angle == angle.v[1]
             max_angle == angle.v[2]
         IN IF ~(0 <= min_angle /\ min_angle <= 360)
               \/ ~(0 <= max_angle /\ max_angle <= 360)
            THEN ValidationError("compass_angle")
            ELSE NoExc
    ELSE ValidationError("compass_angle")

\* a range check without the wraparound case: every descending range fails
validate_compass_angle_ascending(angle) ==
    IF angle.type = "number"
    THEN IF ~(0 <= angle.v[1] /\ angle.v[1] <= 360)
         THEN ValidationError("compass_angle") ELSE NoExc
    ELSE IF angle.type = "tuple" /\ Len(angle.v) = 2
    THEN LET min_angle == angle.v[1]
             max_angle == angle.v[2]
         IN IF ~(0 <= min_angle /\ min_angle <= 360)
               \/ ~(0 <= max_angle /\ max_angle <= 360)
            THEN ValidationError("compass_angle")
            ELSE IF min_angle > max_angle THEN ValidationError("compass_angle")
            ELSE NoExc
    ELSE ValidationError("compass_angle")

\* a wraparound case that asks for a range through north no wider than a
\* half turn (min >= 270 and max <= 90)
validate_compass_angle_north(angle) ==
    IF angle.type = "number"
    THEN IF ~(0 <= angle.v[1] /\ angle.v[1] <= 360)
         THEN ValidationError("compass_angle") ELSE NoExc
    ELSE IF angle.type = "tuple" /\ Len(angle.v) = 2
    THEN LET min_angle == angle.v[1]
             max_angle == angle.v[2]
         IN IF ~(0 <= min_angle /\ min_angle <= 360)
               \/ ~(0 <= max_angle /\ max_angle <= 360)
            THEN ValidationError("compass_angle")
            ELSE IF min_angle > max_angle /\ ~(min_angle >= 270 /\ max_angle <= 90)
                 THEN ValidationError("compass_angle")
            ELSE NoExc
    ELSE ValidationError("compass_angle")

\* validate_compass_angle: a number, a tuple or list of two numbers, or
\* anything else
validate_compass_angle(angle) ==
    IF angle.type = "number"
    THEN IF ~(0 <= angle.v[1] /\ angle.v[1] <= 360)
         THEN ValidationError("compass_angle") ELSE NoExc
    ELSE IF angle.type = "tuple" /\ Len(angle.v) = 2
    THEN LET min_angle == angle.v[1]
             max_angle == angle.v[2]
         IN IF ~(0 <= min_angle /\ min_angle <= 360)
               \/ ~(0 <= max_angle /\ max_angle <= 360)
            THEN ValidationError("compass_angle")
            ELSE IF min_angle > max_angle /\ ~(min_angle > 180 /\ max_angle < 180)
                 THEN ValidationError("compass_angle")
            ELSE NoExc
    ELSE ValidationError("compass_angle")

----------------------------------------------------------------------------
(* Filter methods of the builders.  Each is one step: the caller gets     *)
(* self or an exception.                                                   *)

\* a builder method that ends without a request: a is its arguments, b the
\* builder's new state, r what the caller gets
BuilderStep(name, a, b, r) ==
    /\ pc = "idle"
    /\ cur.ref # None
    /\ builders' = [builders EXCEPT ![cur.ref] = b]
    /\ pc' = "done"
    /\ op' = Op(name, cur.ref, "raw", "-")
    /\ args' = a
    /\ outcome' = r
    /\ UNCHANGED <<caller, threads, max_retries, retry_backoff, clients, used, endpoints,
                   created, cur, attempt, sent, log, reply, last>>

BBoxInputs == {<<0, 0, 1, 1>>, <<1, 0, 1, 1>>, <<0, 0, 1, 91>>}

\* f"{west},{south},{east},{north}": the four numbers in this order
BBoxString(west, south, east, north) == <<west, south, east, north>>

\* in_bbox(west, south, east, north)
InBbox(bb) ==
    /\ cur.ref # None /\ Family(cur.ref) \in FilterFamilies
    /\ LET b == builders[cur.ref]
           e == validate_bbox(bb[1], bb[2], bb[3], bb[4])
       IN IF e # NoExc
          THEN BuilderStep("in_bbox", bb, b, Raises(e))
          ELSE BuilderStep("in_bbox", bb,
                 [b EXCEPT !.filters = Put(@, "bbox", BBoxString(bb[1], bb[2], bb[3], bb[4]))],
                 Returns(BuilderValue(cur.ref)))

CloseToInputs == {<<30, 31>>, <<91, 0>>, <<0, 181>>}
RadiusInputs == {None, Some(0), Some(100)}

\* the entries close_to writes for (latitude, longitude): "longitude" and
\* "latitude", or on the MapFeature builder "closeto" = f"{lon},{lat}"
ProximityEntries(f, latitude, longitude) ==
    IF f = "map_features" THEN Put(EmptyDict, "closeto", <<longitude, latitude>>)
    ELSE Put(Put(EmptyDict, "longitude", longitude), "latitude", latitude)

\* an update that replaces the mapping by the new entries
UpdateReplacing(d, e) == e

\* self._filters.update(e): the entries of e are written, the others stay
Update(d, e) ==
    [k \in (DOMAIN d) \cup (DOMAIN e) |-> IF k \in DOMAIN e THEN e[k] ELSE d[k]]

\* close_to(latitude, longitude, radius): the coordinates are written
\* before the radius is checked
CloseTo(latitude, longitude, radius) ==
    /\ cur.ref # None /\ Family(cur.ref) \in FilterFamilies
    /\ LET b == builders[cur.ref]
           a == <<latitude, longitude, radius>>
           e == validate_coordinates(latitude, longitude)
           w == [b EXCEPT !.filters =
                    Update(@, ProximityEntries(Family(cur.ref), latitude, longitude))]
       IN IF e # NoExc THEN BuilderStep("close_to", a, b, Raises(e))
          ELSE IF radius = None
               THEN BuilderStep("close_to", a, w, Returns(BuilderValue(cur.ref)))
          ELSE IF radius[1] <= 0 THEN BuilderStep("close_to", a, w, Raises(ValueError))
          ELSE BuilderStep("close_to", a,
                           [w EXCEPT !.filters = Put(@, "radius", radius[1])],
                           Returns(BuilderValue(cur.ref)))

LimitInputs == {-1, 0, 1, 5}

\* a check of the limit that lets 0 pass
LimitRejectsNegative(count) == count < 0

\* "if count <= 0" of limit
LimitRejects(count) == count <= 0

\* limit(count)
Limit(count) ==
    /\ cur.ref # None /\ Family(cur.ref) \in FilterFamilies
    /\ LET b == builders[cur.ref]
       IN IF LimitRejects(count)
          THEN BuilderStep("limit", <<count>>, b, Raises(ValueError))
          ELSE BuilderStep("limit", <<count>>, [b EXCEPT !.filters = Put(@, "limit", count)],
                           Returns(BuilderValue(cur.ref)))

FieldsInputs == {<<>>, <<"id">>, <<"id", "geometry">>, <<"id", "all">>}

Contains(names, x) == \E i \in DOMAIN names : names[i] = x

\* an assignment that extends the list instead of replacing it
SetFieldsExtending(b, names) ==
    [b EXCEPT !.fields = IF Contains(names, "all") THEN <<"all">> ELSE @ \o names]

\* the assignment of self._fields in fields()
SetFields(b, names) ==
    [b EXCEPT !.fields = IF Contains(names, "all") THEN <<"all">> ELSE names]

\* fields(*field_names)
Fields(names) ==
    /\ cur.ref # None /\ Family(cur.ref) \in BuilderFamilies
    /\ BuilderStep("fields", names, SetFields(builders[cur.ref], names),
                   Returns(BuilderValue(cur.ref)))

----------------------------------------------------------------------------
(* Terminal operations of the builders *)

\* ",".join(names): the names in their order
Join(names) == names

\* _build_params that hands out the filter mapping itself, not a copy
_build_params_alias(b) ==
    LET params == IF b.fields # <<>> THEN Put(b.filters, "fields", Join(b.fields))
                  ELSE b.filters
    IN [params |-> params, builder |-> [b EXCEPT !.filters = params]]

\* _build_params: the parameters, and the builder as the call leaves it
\* (params is a copy, so writing "fields" does not touch the builder)
_build_params(b) ==
    LET params == IF b.fields # <<>> THEN Put(b.filters, "fields", Join(b.fields))
                  ELSE b.filters
    IN [params |-> params, builder |-> b]

\* the endpoint get() requests, per builder class
ListEndpoint(f) ==
    IF f = "images" THEN <<"images">>
    ELSE IF f = "sequences" THEN <<"sequences">>
    ELSE <<"map_features">>

\* client.get(endpoint, params) = request("GET", endpoint, params=params)
ClientGet(o, endpoint, params) ==
    StartRequest(o, BuildRequest("GET", endpoint, Some(params), None, TRUE))

Frame == UNCHANGED <<caller, threads, max_retries, retry_backoff, clients, used, endpoints,
                     created, cur>>

\* get() of the Image, Sequence, Detection and MapFeature builders
Get ==
    /\ pc = "idle"
    /\ cur.ref # None /\ Family(cur.ref) \in FilterFamilies
    /\ LET r == _build_params(builders[cur.ref])
       IN /\ builders' = [builders EXCEPT ![cur.ref] = r.builder]
          /\ ClientGet(Op("get", cur.ref, "APIResponse", "-"),
                       ListEndpoint(Family(cur.ref)), r.params)
    /\ args' = <<>>
    /\ Frame

\* "if not image_id" that lets every id pass
IdIsEmptyNever(id) == FALSE

\* "if not image_id": the id is empty
IdIsEmpty(id) == id = ""

\* a terminal operation that fails its argument check
Rejected(o, e) ==
    /\ pc' = "done"
    /\ op' = o
    /\ outcome' = Raises(e)
    /\ UNCHANGED <<attempt, sent, log, reply, last>>

IdInputs == {"", "a"}
FieldsArgInputs == {None, Some(<<>>), Some(<<"geometry">>)}

\* a get_by_id that lets the builder's list win over the argument
ByIdParamsBuilderFirst(fields, b) ==
    IF b.fields # <<>> THEN Put(EmptyDict, "fields", Join(b.fields))
    ELSE IF fields # None /\ fields[1] # <<>>
         THEN Put(EmptyDict, "fields", Join(fields[1]))
    ELSE EmptyDict

\* the fields parameter of get_by_id: the argument when it is given and
\* not empty, else the builder's list when that is not empty
ByIdParams(fields, b) ==
    IF fields # None /\ fields[1] # <<>> THEN Put(EmptyDict, "fields", Join(fields[1]))
    ELSE IF b.fields # <<>> THEN Put(EmptyDict, "fields", Join(b.fields))
    ELSE EmptyDict

\* get_by_id(id, fields) of the five builders
GetById(id, fields) ==
    /\ pc = "idle"
    /\ cur.ref # None /\ Family(cur.ref) \in BuilderFamilies
    /\ LET o == Op("get_by_id", cur.ref, "entity", id)
       IN IF IdIsEmpty(id) THEN Rejected(o, ValueError)
          ELSE ClientGet(o, <<id>>, ByIdParams(fields, builders[cur.ref]))
    /\ args' = <<id, fields>>
    /\ UNCHANGED builders
    /\ Frame

SizeInputs == {"thumb_256_url", "thumb_2048_url"}

\* download_image(image_id, size): get_by_id(image_id, fields=[size]), then
\* the byte fetch
DownloadImage(id, size) ==
    /\ pc = "idle"
    /\ cur.ref # None /\ Family(cur.ref) = "images"
    /\ LET o == Op("download_image", cur.ref, "entity", id)
       IN IF IdIsEmpty(id) THEN Rejected(o, ValueError)
          ELSE ClientGet(o, <<id>>, ByIdParams(Some(<<size>>), builders[cur.ref]))
    /\ args' = <<id, size>>
    /\ UNCHANGED builders
    /\ Frame

\* "if fields:" and "if limit:": the optional argument is given and truthy
TruthyList(fields) == fields # None /\ fields[1] # <<>>
TruthyInt(n) == n # None /\ n[1] # 0

WithFields(params, fields) ==
    IF TruthyList(fields) THEN Put(params, "fields", Join(fields[1])) ELSE params
WithLimit(params, limit) ==
    IF TruthyInt(limit) THEN Put(params, "limit", limit[1]) ELSE params

LimitArgInputs == {None, Some(-1), Some(0), Some(5)}

\* ImageEndpoint.get_detections and MapFeatureEndpoint.get_detections
GetDetections(id, fields) ==
    /\ pc = "idle"
    /\ cur.ref # None /\ Family(cur.ref) \in {"images", "map_features"}
    /\ LET o == Op("get_detections", cur.ref, "APIResponse", id)
       IN IF IdIsEmpty(id) THEN Rejected(o, ValueError)
          ELSE ClientGet(o, <<id, "detections">>, WithFields(EmptyDict, fields))
    /\ args' = <<id, fields>>
    /\ UNCHANGED builders
    /\ Frame

\* SequenceEndpoint.get_images
GetImages(id, fields, limit) ==
    /\ pc = "idle"
    /\ cur.ref # None /\ Family(cur.ref) = "sequences"
    /\ LET o == Op("get_images", cur.ref, "APIResponse", id)
       IN IF IdIsEmpty(id) THEN Rejected(o, ValueError)
          ELSE ClientGet(o, <<"images">>,
                 WithLimit(WithFields(Put(EmptyDict, "sequence_id", id), fields), limit))
    /\ args' = <<id, fields, limit>>
    /\ UNCHANGED builders
    /\ Frame

GroupByInputs == {"object_type"}

\* DetectionEndpoint.get_statistics
GetStatistics(group_by) ==
    /\ pc = "idle"
    /\ cur.ref # None /\ Family(cur.ref) = "detections"
    /\ LET r == _build_params(builders[cur.ref])
       IN /\ builders' = [builders EXCEPT ![cur.ref] = r.builder]
          /\ ClientGet(Op("get_statistics", cur.ref, "raw", "-"),
                       <<"map_features", "statistics">>,
                       Put(Put(r.params, "group_by", group_by), "statistics", TRUE))
    /\ args' = <<group_by>>
    /\ Frame

\* OrganizationEndpoint.get_current_user_organizations
GetCurrentUserOrganizations ==
    /\ pc = "idle"
    /\ cur.ref # None /\ Family(cur.ref) = "organizations"
    /\ LET r == _build_params(builders[cur.ref])
       IN /\ builders' = [builders EXCEPT ![cur.ref] = r.builder]
          /\ ClientGet(Op("get_current_user_organizations", cur.ref, "APIResponse", "-"),
                       <<"me", "organizations">>, r.params)
    /\ args' = <<>>
    /\ Frame

DateArgInputs == {None, Some("2020")}
WithDate(params, key, date) ==
    IF date # None /\ date[1] # "" THEN Put(params, key, date[1]) ELSE params

\* OrganizationEndpoint.get_organization_stats
GetOrganizationStats(id, start_date, end_date) ==
    /\ pc = "idle"
    /\ cur.ref # None /\ Family(cur.ref) = "organizations"
    /\ LET o == Op("get_organization_stats", cur.ref, "raw", id)
       IN IF IdIsEmpty(id) THEN Rejected(o, ValueError)
          ELSE ClientGet(o, <<id, "stats">>,
                 WithDate(WithDate(EmptyDict, "start_date", start_date),
                          "end_date", end_date))
    /\ args' = <<id, start_date, end_date>>
    /\ UNCHANGED builders
    /\ Frame

OrganizationResources == {"images", "sequences", "detections"}

\* the endpoint of get_organization_images / _sequences / _detections
OrganizationEndpointOf(kind) ==
    IF kind = "images" THEN <<"images">>
    ELSE IF kind = "sequences" THEN <<"sequences">>
    ELSE <<"map_features">>

\* OrganizationEndpoint.get_organization_images, get_organization_sequences
\* and get_organization_detections
GetOrganizationResources(kind, id, limit, fields) ==
    /\ pc = "idle"
    /\ cur.ref # None /\ Family(cur.ref) = "organizations"
    /\ LET o == Op("get_organization_" \o kind, cur.ref, "APIResponse", id)
       IN IF IdIsEmpty(id) THEN Rejected(o, ValueError)
          ELSE ClientGet(o, OrganizationEndpointOf(kind),
                 WithFields(WithLimit(Put(EmptyDict, "organization_id", id), limit),
                            fields))
    /\ args' = <<id, limit, fields>>
    /\ UNCHANGED builders
    /\ Frame

----------------------------------------------------------------------------
(* VectorTileEndpoint *)

TileLayers == {"image", "sequence", "overview", "traffic_sign", "map_feature"}
LayerInputs == TileLayers \cup {"bogus"}
TileZInputs == {-1, 0, 1, 14, 15}
TileXYInputs == {-1, 0, 1, 2, 16383, 16384}
FormatInputs == {"mvt", "png"}

\* f"/{z}/{x}/{y}" after the segments of prefix, with f".{format}" added
\* unless the format is "mvt"
TileEndpoint(prefix, z, x, y, format) ==
    prefix \o <<ToString(z), ToString(x),
                ToString(y) \o (IF format # "mvt" THEN "." \o format ELSE "")>>

\* the checks of get_tile with the test of x letting 2 ** z pass
TileArgsErrorInclusive(layer, z, x, y) ==
    IF layer \notin TileLayers THEN ValueError
    ELSE IF ~(0 <= z /\ z <= 14) THEN ValueError
    ELSE IF ~(0 <= x /\ x <= 2 ^ z) THEN ValueError
    ELSE IF ~(0 <= y /\ y < 2 ^ z) THEN ValueError
    ELSE NoExc

\* the checks at the head of get_tile, in their order: NoExc when all pass
TileArgsError(layer, z, x, y) ==
    IF layer \notin TileLayers THEN ValueError
    ELSE IF ~(0 <= z /\ z <= 14) THEN ValueError
    ELSE IF ~(0 <= x /\ x < 2 ^ z) THEN ValueError
    ELSE IF ~(0 <= y /\ y < 2 ^ z) THEN ValueError
    ELSE NoExc

\* get_tile(layer, z, x, y, format)
GetTile(layer, z, x, y, format) ==
    /\ pc = "idle"
    /\ cur.ref # None /\ Family(cur.ref) = "vector_tiles"
    /\ LET o == Op("get_tile", cur.ref, "content", "-")
           e == TileArgsError(layer, z, x, y)
       IN IF e # NoExc THEN Rejected(o, e)
          ELSE StartRequest(o, BuildRequest("GET", TileEndpoint(<<layer>>, z, x, y, format),
                                            None, Some(VECTOR_TILES_URL), FALSE))
    /\ args' = <<layer, z, x, y, format>>
    /\ UNCHANGED builders
    /\ Frame

FixedBaseTileOps == {"get_coverage_tiles", "get_computed_coverage_tiles",
                     "get_map_feature_point_tiles",
                     "get_map_feature_traffic_sign_tiles"}

\* the base URL each of these four methods passes to request()
TileBaseOf(name) ==
    IF name = "get_coverage_tiles" THEN COVERAGE_TILES_URL
    ELSE IF name = "get_computed_coverage_tiles" THEN COMPUTED_COVERAGE_TILES_URL
    ELSE IF name = "get_map_feature_point_tiles" THEN MAP_FEATURES_POINTS_URL
    ELSE IF name = "get_map_feature_traffic_sign_tiles"
         THEN MAP_FEATURES_TRAFFIC_SIGNS_URL
    ELSE VECTOR_TILES_URL

\* get_coverage_tiles, get_computed_coverage_tiles,
\* get_map_feature_point_tiles and get_map_feature_traffic_sign_tiles
GetFixedBaseTiles(name, z, x, y, format) ==
    /\ pc = "idle"
    /\ cur.ref # None /\ Family(cur.ref) = "vector_tiles"
    /\ StartRequest(Op(name, cur.ref, "content", "-"),
                    BuildRequest("GET", TileEndpoint(<<>>, z, x, y, format),
                                 None, Some(TileBaseOf(name)), FALSE))
    /\ args' = <<z, x, y, format>>
    /\ UNCHANGED builders
    /\ Frame

TerminalOps == {"get", "get_by_id", "get_detections", "get_images", "get_statistics",
                "get_current_user_organizations", "get_organization_stats",
                "get_organization_images", "get_organization_sequences",
                "get_organization_detections"}

----------------------------------------------------------------------------
(* The request layer on its own: a client and direct calls of request() *)

InitRetry ==
    /\ max_retries \in -1 .. MaxRetries
    /\ retry_backoff \in 1 .. MaxBackoff
    /\ clients = {1}
    /\ used = {}
    /\ InitIdle

NextRetry ==
    \/ \E p \in ParamsInputs, b \in BaseUrlInputs, h \in BOOLEAN : Request(p, b, h)
    \/ \E o \in TransportOutcomes : Attempt(o)
    \/ Return

SpecRetry == InitRetry /\ [][NextRetry]_vars

----------------------------------------------------------------------------
(* Properties of the request layer *)

CallsOf(l) == {i \in DOMAIN l : l[i].ev = "call"}
Calls == Cardinality(CallsOf(log))
SleepsOf(l) == {i \in DOMAIN l : l[i].ev = "sleep"}
Sleeps == Cardinality(SleepsOf(log))
EveryAttemptRaised == \A i \in CallsOf(log) : ~log[i].ok

\* C1: for max_retries >= 0 a call of request makes at most max_retries+1
\* transport attempts; when every attempt raised, exactly max_retries+1
\* attempts were made and the caller receives the exception object raised
\* by the last attempt.
C1_RetryBudget ==
    (op.name = "request" /\ max_retries >= 0) =>
        /\ Calls <= max_retries + 1
        /\ (pc = "done" /\ EveryAttemptRaised) =>
              /\ Calls = max_retries + 1
              /\ ~outcome.ok
              /\ outcome.exc = last.exc
              /\ outcome.exc.at = max_retries

C1_Witness ==
    /\ op.name = "request" /\ pc = "done" /\ max_retries >= 2
    /\ EveryAttemptRaised /\ Calls = max_retries + 1 /\ ~outcome.ok

\* the log of a finished request with k failed attempts: call 0, sleep,
\* call 1, sleep, ..., call k, the sleeps being backoff * 2^0, 2^1, ...
BackoffSchedule(k) ==
    /\ Len(log) = 2 * k + 1
    /\ \A i \in 0 .. k - 1 :
          /\ log[2 * i + 1] = CallEvent(i, FALSE)
          /\ log[2 * i + 2] = SleepEvent(retry_backoff * (2 ^ i))
    /\ log[2 * k + 1].ev = "call" /\ log[2 * k + 1].n = k

\* C2: when the first k attempts raise and attempt k+1 succeeds, the
\* request returns the result of attempt k+1, makes no further attempt and
\* has slept exactly k times, each sleep between two consecutive attempts,
\* for backoff*2^0, ..., backoff*2^(k-1) in that order; no sleep follows
\* the last attempt, whether it succeeded or failed.
C2_BackoffSchedule ==
    /\ [](  (op.name = "request" /\ pc = "done" /\ max_retries >= 0) =>
              /\ BackoffSchedule(Calls - 1)
              /\ Sleeps = Calls - 1
              /\ outcome.ok => /\ log[Len(log)].ok
                               /\ outcome.value = last.value
                               /\ outcome.value.at = Calls - 1)
    /\ [][(op.name = "request" /\ pc = "done") => (pc' = "idle" /\ log' = <<>>)]_vars

C2_Witness ==
    /\ op.name = "request" /\ pc = "done" /\ outcome.ok
    /\ max_retries = 3 /\ Calls = 3 /\ Sleeps = 2
    /\ log[2].n = retry_backoff /\ log[4].n = retry_backoff * 2

\* C3: while attempts remain, a failed attempt is retried whatever kind of
\* exception it raised: the loop goes on to the next attempt and nothing
\* reaches the caller.
C3_RetryAnyKind ==
    [][(op.name = "request" /\ pc = "request" /\ attempt < max_retries /\ ~last'.ok)
         => (pc' = "request" /\ attempt' = attempt + 1 /\ outcome' = NoResult)]_vars

C3_Witness ==
    /\ op.name = "request" /\ pc = "request" /\ attempt = 2
    /\ last.exc.kind = "AuthenticationError"

\* the error kind the status alone fixes
KindOfStatus(status) ==
    IF status \in {401, 403} THEN "AuthenticationError"
    ELSE IF status = 404 THEN "NotFoundError"
    ELSE IF status = 429 THEN "RateLimitError"
    ELSE "APIError"

NonSuccess(o) == ~o.raises /\ o.response.status # 0
                   /\ ~(200 <= o.response.status /\ o.response.status < 300)

\* C4: for every non-2xx response and every shape of body,
\* _handle_response raises the error kind fixed by the status alone, an
\* APIError carrying the status code.
C4_StatusFixesKind ==
    NonSuccess(reply) =>
        /\ ~last.ok
        /\ last.exc.kind = KindOfStatus(reply.response.status)
        /\ last.exc.kind = "APIError" => last.exc.status_code = reply.response.status

\* C10: every exception raised by the transport becomes TimeoutError when
\* the transport timed out and NetworkError otherwise, also when it is not
\* of the transport library's exception family.
C10_TransportErrorsTyped ==
    reply.raises =>
        /\ ~last.ok
        /\ last.exc.kind = IF IsTimeout(reply.kind) THEN "TimeoutError" ELSE "NetworkError"

Success(o) == ~o.raises /\ 200 <= o.response.status /\ o.response.status < 300

\* C11: for every response with a status in 200..299 _handle_response does
\* not raise: it returns the parsed JSON value when the body parses as JSON
\* and otherwise the wrapper that holds the raw body under "content" and the
\* response headers under "headers"; the value is that of this response.
C11_SuccessNeverRaises ==
    Success(reply) =>
        /\ last.ok
        /\ last.value.at = Calls - 1
        /\ reply.response.body = "nonjson" => last.value.kind = "wrapper"
        /\ reply.response.body = "nonobject" => last.value.kind = "json_nonobject"
        /\ reply.response.body \in {"object", "object_message", "object_error_text"}
              => last.value.kind = "json_object"

C11_Witness ==
    /\ op.name = "request" /\ pc = "done" /\ Calls = 2
    /\ reply = Responds([status |-> 204, body |-> "nonjson"])
    /\ outcome.ok /\ outcome.value.kind = "wrapper" /\ outcome.value.at = 1

----------------------------------------------------------------------------
(* A client, one of its builders, and the operations of that builder *)

\* the outcomes of an attempt that differ in what the operation gives its
\* caller: a JSON object, a JSON value that is not an object, bytes that
\* are not JSON, two failing statuses, a timeout and a foreign exception
OpOutcomes ==
    {Responds([status |-> 200, body |-> "object"]),
     Responds([status |-> 200, body |-> "nonobject"]),
     Responds([status |-> 200, body |-> "nonjson"]),
     Responds([status |-> 404, body |-> "object_message"]),
     Responds([status |-> 500, body |-> "nonobject"]),
     TransportRaise("ReadTimeout"),
     TransportRaise("RuntimeError")}

Init ==
    /\ max_retries \in 0 .. MaxOpRetries
    /\ retry_backoff = 1
    /\ clients = {1}
    /\ used \in {{<<1, f>>} : f \in Families}
    /\ InitIdle

Next ==
    \/ \E c \in Clients, f \in Families : Accessor(c, f)
    \/ \E bb \in BBoxInputs : InBbox(bb)
    \/ \E ll \in CloseToInputs, r \in RadiusInputs : CloseTo(ll[1], ll[2], r)
    \/ \E n \in LimitInputs : Limit(n)
    \/ \E names \in FieldsInputs : Fields(names)
    \/ Get
    \/ \E id \in IdInputs, fields \in FieldsArgInputs : GetById(id, fields)
    \/ \E id \in IdInputs, fields \in FieldsArgInputs : GetDetections(id, fields)
    \/ \E id \in IdInputs, fields \in FieldsArgInputs, n \in LimitArgInputs :
          GetImages(id, fields, n)
    \/ \E g \in GroupByInputs : GetStatistics(g)
    \/ GetCurrentUserOrganizations
    \/ \E id \in IdInputs, d1 \in DateArgInputs, d2 \in DateArgInputs :
          GetOrganizationStats(id, d1, d2)
    \/ \E k \in OrganizationResources, id \in IdInputs, n \in LimitArgInputs,
          fields \in FieldsArgInputs : GetOrganizationResources(k, id, n, fields)
    \/ Request(None, None, TRUE)
    \/ \E o \in OpOutcomes : Attempt(o)
    \/ Return

Spec == Init /\ [][Next]_vars

----------------------------------------------------------------------------
(* A client, its image builder, and download_image *)

\* replies to the metadata request: image records with and without
\* thumbnail URLs, a body that is no record, a failing status, a timeout
DownloadOutcomes ==
    {Responds([status |-> 200, body |-> b]) : b \in ThumbBodies \cup {"object", "nonobject"}}
    \cup {Responds([status |-> 404, body |-> "object_message"]),
          TransportRaise("ReadTimeout")}

\* replies to the byte fetch
FetchOutcomes ==
    {Responds([status |-> 200, body |-> "nonjson"]),
     Responds([status |-> 404, body |-> "object_message"]),
     Responds([status |-> 500, body |-> "nonjson"]),
     TransportRaise("ReadTimeout"),
     TransportRaise("ConnectionError")}

InitDownload ==
    /\ max_retries \in 0 .. MaxOpRetries
    /\ retry_backoff = 1
    /\ clients = {1}
    /\ used = {<<1, "images">>}
    /\ InitIdle

NextDownload ==
    \/ \E c \in Clients, f \in Families : Accessor(c, f)
    \/ \E names \in FieldsInputs : Fields(names)
    \/ \E id \in IdInputs, size \in SizeInputs : DownloadImage(id, size)
    \/ \E o \in DownloadOutcomes : Attempt(o)
    \/ \E o \in FetchOutcomes : Fetch(o)
    \/ Return

SpecDownload == InitDownload /\ [][NextDownload]_vars

----------------------------------------------------------------------------
(* The validators of utils.py on their own: calls with numeric arguments *)

LatitudeInputs == {-91, -90, 0, 90, 91}
LongitudeInputs == {-181, -180, 0, 180, 181}

\* a call of a validator: it returns None or raises e
ValidatorCall(name, a, e) ==
    /\ pc = "idle"
    /\ pc' = "done"
    /\ op' = Op(name, None, "raw", "-")
    /\ args' = a
    /\ outcome' = IF e = NoExc THEN Returns(Value("none", -1)) ELSE Raises(e)
    /\ UNCHANGED <<caller, threads, max_retries, retry_backoff, clients, used, endpoints, created,
                   builders, cur, attempt, sent, log, reply, last>>

ValidateCoordinates(latitude, longitude) ==
    ValidatorCall("validate_coordinates", <<latitude, longitude>>,
                  validate_coordinates(latitude, longitude))

ValidateBbox(west, south, east, north) ==
    ValidatorCall("validate_bbox", <<west, south, east, north>>,
                  validate_bbox(west, south, east, north))

AngleInputs == {-1, 0, 45, 170, 180, 181, 200, 315, 360, 361}

\* the arguments tried: every number, every pair, and a tuple of three
CompassAngleInputs ==
    {Number(a) : a \in AngleInputs}
      \cup {Tuple(<<a, b>>) : a \in AngleInputs, b \in AngleInputs}
      \cup {Tuple(<<0, 90, 180>>)}

ValidateCompassAngle(angle) ==
    ValidatorCall("validate_compass_angle", angle, validate_compass_angle(angle))

InitValidators ==
    /\ max_retries = 0
    /\ retry_backoff = 1
    /\ clients = {}
    /\ used = {}
    /\ InitIdle

NextValidators ==
    \/ \E latitude \in LatitudeInputs, longitude \in LongitudeInputs :
          ValidateCoordinates(latitude, longitude)
    \/ \E west \in LongitudeInputs, south \in LatitudeInputs,
          east \in LongitudeInputs, north \in LatitudeInputs :
             ValidateBbox(west, south, east, north)
    \/ \E angle \in CompassAngleInputs : ValidateCompassAngle(angle)
    \/ Return

SpecValidators == InitValidators /\ [][NextValidators]_vars

----------------------------------------------------------------------------
(* JSON values and Python's view of them.  A decoded JSON value is a      *)
(* record [t, v]: its type and its content; a JSON object's content is a  *)
(* function from its keys.                                                 *)

Null == [t |-> "null", v |-> ""]
Str(s) == [t |-> "str", v |-> s]
IntValue(n) == [t |-> "int", v |-> ToString(n)]
Bool(b) == [t |-> "bool", v |-> IF b THEN "true" ELSE "false"]
Object(d) == [t |-> "object", v |-> d]
List(l) == [t |-> "list", v |-> l]

\* bool(x): None, "", 0, False, {} and [] are falsy
Truthy(x) ==
    IF x.t = "null" THEN FALSE
    ELSE IF x.t = "str" THEN x.v # ""
    ELSE IF x.t = "int" THEN x.v # "0"
    ELSE IF x.t = "bool" THEN x.v = "true"
    ELSE IF x.t = "object" THEN DOMAIN x.v # {}
    ELSE IF x.t = "list" THEN x.v # <<>>
    ELSE TRUE

\* d.get(k, default)
DictGet(d, k, default) == IF k \in DOMAIN d THEN d[k] ELSE default

----------------------------------------------------------------------------
(* format_timestamp *)

Formats == <<"%Y-%m-%dT%H:%M:%S.%fZ", "%Y-%m-%dT%H:%M:%SZ", "%Y-%m-%dT%H:%M:%S",
             "%Y-%m-%d %H:%M:%S", "%Y-%m-%d">>

\* datetime.strptime(s, fmt) succeeds, for the strings the model uses
strptime(s, fmt) ==
    <<s, fmt>> \in {<<"2020-01-02T03:04:05.678Z", "%Y-%m-%dT%H:%M:%S.%fZ">>,
                    <<"2020-01-02T03:04:05Z", "%Y-%m-%dT%H:%M:%SZ">>,
                    <<"2020-01-02T03:04:05", "%Y-%m-%dT%H:%M:%S">>,
                    <<"2020-01-02 03:04:05", "%Y-%m-%d %H:%M:%S">>,
                    <<"2020-01-02", "%Y-%m-%d">>,
                    <<"2020", "%Y">>,
                    <<"2021-06", "%Y-%m">>}

\* a datetime: the text it was parsed from and its tzinfo
Datetime(s, tzinfo) == [t |-> "datetime", v |-> <<s, tzinfo>>]

\* the loop over the formats: the first that parses, else None
RECURSIVE TryFormats(_, _)
TryFormats(s, i) ==
    IF i > Len(Formats) THEN Null
    ELSE IF strptime(s, Formats[i]) THEN Datetime(s, "UTC")
    ELSE TryFormats(s, i + 1)

\* format_timestamp: strptime raises TypeError for an argument that is
\* not a string, and only ValueError is caught
format_timestamp(timestamp) ==
    IF ~Truthy(timestamp) THEN Returns(Null)
    ELSE IF timestamp.t # "str" THEN Raises(Exc("TypeError", 0, -1))
    ELSE Returns(TryFormats(timestamp.v, 1))

----------------------------------------------------------------------------
(* The from_dict parsers of models.py *)

Kinds == {"Image", "Sequence", "Detection", "MapFeature", "Organization"}

\* the fields a parser passes through format_timestamp
TimestampKeys(kind) ==
    IF kind = "Image" THEN {"captured_at"}
    ELSE IF kind = "Sequence" THEN {"created_at", "captured_at"}
    ELSE IF kind = "Detection" THEN {"created_at", "first_seen_at", "last_seen_at"}
    ELSE IF kind = "MapFeature" THEN {"first_seen_at", "last_seen_at"}
    ELSE {"created_at"}

\* the fields a parser copies with get(key)
ScalarKeys(kind) ==
    IF kind = "Image"
    THEN {"camera_make", "camera_model", "camera_type", "camera_parameters",
          "compass_angle", "sequence_id", "organization_id", "creator_id",
          "creator_username", "is_pano", "altitude", "thumb_256_url",
          "thumb_1024_url", "thumb_2048_url", "thumb_original_url",
          "computed_compass_angle", "computed_altitude", "computed_rotation",
          "width", "height", "exif_orientation", "atomic_scale", "mesh_id",
          "sfm_cluster_id"}
    ELSE IF kind = "Sequence"
    THEN {"organization_id", "creator_id", "creator_username", "camera_make",
          "camera_model", "image_count"}
    ELSE IF kind = "Detection"
    THEN {"image_id", "sequence_id", "organization_id", "creator_id",
          "object_type", "object_value", "confidence"}
    ELSE IF kind = "MapFeature" THEN {"feature_type", "feature_value", "confidence"}
    ELSE {"name", "description"}

\* the fields that hold a Geometry or None
GeometryKeys(kind) ==
    IF kind = "Image" THEN {"geometry", "computed_geometry"}
    ELSE IF kind = "Organization" THEN {}
    ELSE {"geometry"}

\* the fields that hold a list
ListKeys(kind) ==
    IF kind = "Image" THEN {"detections"}
    ELSE IF kind = "MapFeature" THEN {"images"}
    ELSE {}

Geometry_from_dict(data) ==
    [t |-> "Geometry",
     v |-> [type |-> DictGet(data, "type", Str("")),
            coordinates |-> DictGet(data, "coordinates", List(<<>>))]]

\* Geometry.from_dict(d.get(key, {})) if d.get(key) else None
GeometryOrNone(d, key) ==
    IF Truthy(DictGet(d, key, Null)) THEN Geometry_from_dict(d[key].v) ELSE Null

\* where the parser of a kind looks for the id and the scalar fields
PropertiesOf(kind, data) ==
    IF kind = "Organization" THEN data
    ELSE DictGet(data, "properties", Object(EmptyDict)).v

\* Image.from_dict, Sequence.from_dict, Detection.from_dict,
\* MapFeature.from_dict and Organization.from_dict
RECURSIVE from_dict(_, _)
from_dict(kind, data) ==
    LET properties == PropertiesOf(kind, data)
        times == [k \in TimestampKeys(kind) |->
                     format_timestamp(DictGet(properties, k, Null))]
        detections_data == DictGet(properties, "detections", List(<<>>))
        detections ==
            IF kind = "Image" /\ Truthy(detections_data)
            THEN [i \in DOMAIN detections_data.v |->
                     from_dict("Detection", detections_data.v[i].v)]
            ELSE <<>>
        fields ==
            [k \in {"id"} \cup TimestampKeys(kind) \cup ScalarKeys(kind)
                          \cup GeometryKeys(kind) \cup ListKeys(kind) |->
                IF k = "id" THEN DictGet(properties, "id", Str(""))
                ELSE IF k \in TimestampKeys(kind) THEN times[k].value
                ELSE IF k = "geometry" THEN GeometryOrNone(data, "geometry")
                ELSE IF k = "computed_geometry"
                     THEN GeometryOrNone(properties, "computed_geometry")
                ELSE IF k = "detections"
                     THEN List([i \in DOMAIN detections |-> detections[i].value])
                ELSE IF k = "images" THEN DictGet(properties, "images", List(<<>>))
                ELSE DictGet(properties, k, Null)]
    IN IF \E i \in DOMAIN detections : ~detections[i].ok
       THEN Raises(Exc("TypeError", 0, -1))
       ELSE IF \E k \in TimestampKeys(kind) : ~times[k].ok
       THEN Raises(Exc("TypeError", 0, -1))
       ELSE Returns([t |-> kind, v |-> fields])

\* APIResponse.from_dict(data, model_class)
APIResponse_from_dict(data, model_class) ==
    LET features == DictGet(data, "features", List(<<>>)).v
        parsed == [i \in DOMAIN features |-> from_dict(model_class, features[i].v)]
    IN IF \E i \in DOMAIN parsed : ~parsed[i].ok
       THEN Raises(Exc("TypeError", 0, -1))
       ELSE Returns([t |-> "APIResponse",
                     v |-> [data |-> [i \in DOMAIN parsed |-> parsed[i].value],
                            total_count |-> DictGet(data, "total_count",
                                                    IntValue(Len(parsed))),
                            has_more |-> DictGet(data, "has_more", Bool(FALSE)),
                            next_cursor |-> DictGet(data, "next_cursor", Null),
                            metadata |-> DictGet(data, "metadata", Object(EmptyDict))]])

----------------------------------------------------------------------------
(* The parsers on their own: calls of format_timestamp, of the five       *)
(* entity parsers and of APIResponse.from_dict on decoded JSON             *)

\* a raw timestamp: null, empty, one string per accepted format, a string
\* in no accepted format, an epoch in seconds, and 0
TimestampInputs ==
    {Null, Str(""), Str("2020-01-02T03:04:05.678Z"), Str("2020-01-02T03:04:05Z"),
     Str("2020-01-02T03:04:05"), Str("2020-01-02 03:04:05"), Str("2020-01-02"),
     Str("yesterday"), IntValue(1600000000), IntValue(0)}

\* d with the raw timestamp under every timestamp key of the kind
WithTimestamps(kind, d, raw) ==
    [k \in (DOMAIN d) \cup TimestampKeys(kind) |->
        IF k \in TimestampKeys(kind) THEN raw ELSE d[k]]

\* the scalar key of a kind the records of the model fill in
SampleKey(kind) ==
    IF kind = "Image" THEN "camera_make"
    ELSE IF kind = "Sequence" THEN "camera_make"
    ELSE IF kind = "Detection" THEN "object_type"
    ELSE IF kind = "MapFeature" THEN "feature_type"
    ELSE "name"

\* what a record holds under "properties"
PropertiesInputs(kind) ==
    LET named == Put(Put(EmptyDict, "id", Str("p")), SampleKey(kind), Str("s"))
    IN {EmptyDict, Put(EmptyDict, "id", Str("p")), named,
        WithTimestamps(kind, named, Str("2020-01-02T03:04:05Z")),
        WithTimestamps(kind, named, Str("yesterday")),
        WithTimestamps(kind, named, IntValue(1600000000))}

\* what a record holds beside "properties" and "geometry"
TopLevelInputs(kind) ==
    {EmptyDict,
     Put(Put(EmptyDict, "id", Str("top")), SampleKey(kind), Str("t")),
     Put(EmptyDict, "created_at", Str("2020-01-02"))}

GeometryInputs ==
    {Object(EmptyDict),
     Object(Put(Put(EmptyDict, "type", Str("Point")),
                "coordinates", List(<<IntValue(1), IntValue(2)>>)))}

\* the records tried: with and without "properties", with and without
\* "geometry"
RecordInputs(kind) ==
    LET tops == TopLevelInputs(kind)
        withProps == tops \cup {Put(d, "properties", Object(q)) :
                                  d \in tops, q \in PropertiesInputs(kind)}
    IN withProps \cup {Put(d, "geometry", g) : d \in withProps, g \in GeometryInputs}

\* the features of the envelopes tried
FeatureInputs(kind) ==
    {Object(Put(EmptyDict, "properties", Object(Put(EmptyDict, "id", Str("a"))))),
     Object(Put(EmptyDict, "properties", Object(Put(EmptyDict, "id", Str("b"))))),
     Object(Put(EmptyDict, "properties",
                Object(WithTimestamps(kind, Put(EmptyDict, "id", Str("c")),
                                      IntValue(1600000000)))))}

MaxFeatures == 2

FeatureLists(kind) ==
    UNION {[1 .. n -> FeatureInputs(kind)] : n \in 0 .. MaxFeatures}

\* the envelopes tried: each top-level key present or absent
EnvelopeInputs(kind) ==
    LET bare == {EmptyDict} \cup {Put(EmptyDict, "features", List(l)) :
                                    l \in FeatureLists(kind)}
        counted == bare \cup {Put(d, "total_count", IntValue(7)) : d \in bare}
        paged == counted \cup {Put(d, "has_more", Bool(TRUE)) : d \in counted}
    IN paged \cup {Put(d, "next_cursor", Str("cursor")) : d \in paged}

\* a call of a parser: it returns a value or raises
ParserCall(name, a, r) ==
    /\ pc = "idle"
    /\ pc' = "done"
    /\ op' = Op(name, None, "raw", "-")
    /\ args' = a
    /\ outcome' = IF r.ok THEN Returns(DataValue(name, r.value)) ELSE Raises(r.exc)
    /\ UNCHANGED <<caller, threads, max_retries, retry_backoff, clients, used, endpoints, created,
                   builders, cur, attempt, sent, log, reply, last>>

FormatTimestamp(timestamp) ==
    ParserCall("format_timestamp", <<timestamp>>, format_timestamp(timestamp))

FromDict(kind, data) ==
    ParserCall("from_dict", <<kind, data>>, from_dict(kind, data))

APIResponseFromDict(data, model_class) ==
    ParserCall("APIResponse.from_dict", <<data, model_class>>,
               APIResponse_from_dict(data, model_class))

InitParsers ==
    /\ max_retries = 0
    /\ retry_backoff = 1
    /\ clients = {}
    /\ used = {}
    /\ InitIdle

NextParsers ==
    \/ \E timestamp \in TimestampInputs : FormatTimestamp(timestamp)
    \/ \E kind \in Kinds : \E data \in RecordInputs(kind) : FromDict(kind, data)
    \/ \E kind \in Kinds : \E data \in EnvelopeInputs(kind) :
          APIResponseFromDict(data, kind)
    \/ Return

SpecParsers == InitParsers /\ [][NextParsers]_vars

----------------------------------------------------------------------------
(* Two threads calling one accessor of one client.  An accessor is three  *)
(* steps: the test of the cached attribute, the construction and          *)
(* assignment, and the read of the attribute that is returned.            *)

Threads == {1, 2}

Thread(at, ref) == [at |-> at, ref |-> ref]

\* the accessor slot the threads call
TheSlot == CHOOSE sl \in used : TRUE

ThreadFrame == UNCHANGED <<max_retries, retry_backoff, clients, used, cur, pc, op,
                           args, attempt, sent, log, reply, last, outcome, caller>>

\* "if self._images is None"
Test(t) ==
    /\ threads[t].at = "call"
    /\ threads' = [threads EXCEPT ![t].at =
                      IF NeedsBuilder(endpoints[TheSlot[1]][TheSlot[2]])
                      THEN "construct" ELSE "return"]
    /\ UNCHANGED <<endpoints, created, builders>>
    /\ ThreadFrame

\* "self._images = ImageEndpoint(self)"
Construct(t) ==
    /\ threads[t].at = "construct"
    /\ LET c == TheSlot[1]
           f == TheSlot[2]
           ref == <<c, f, created[c][f] + 1>>
       IN /\ endpoints' = [endpoints EXCEPT ![c][f] = ref]
          /\ created' = [created EXCEPT ![c][f] = @ + 1]
          /\ builders' = Put(builders, ref, NewBuilder(c))
    /\ threads' = [threads EXCEPT ![t].at = "return"]
    /\ ThreadFrame

\* "return self._images"
ReturnBuilder(t) ==
    /\ threads[t].at = "return"
    /\ threads' = [threads EXCEPT ![t] = Thread("has", endpoints[TheSlot[1]][TheSlot[2]])]
    /\ UNCHANGED <<endpoints, created, builders>>
    /\ ThreadFrame

\* the thread writes a filter through the reference it received: limit(n)
\* on a filter builder, fields(name) on the others
WriteThrough(t, n) ==
    /\ threads[t].at = "has"
    /\ builders' = [builders EXCEPT ![threads[t].ref] =
                       IF Family(threads[t].ref) \in FilterFamilies
                       THEN [@ EXCEPT !.filters = Put(@, "limit", n)]
                       ELSE SetFields(@, <<ToString(n)>>)]
    /\ UNCHANGED <<threads, endpoints, created>>
    /\ ThreadFrame

\* the thread calls the accessor again
CallAgain(t) ==
    /\ threads[t].at = "has"
    /\ threads' = [threads EXCEPT ![t].at = "call"]
    /\ UNCHANGED <<endpoints, created, builders>>
    /\ ThreadFrame

InitThreads ==
    /\ max_retries = 0
    /\ retry_backoff = 1
    /\ clients = {1}
    /\ used \in {{<<1, f>>} : f \in Families}
    /\ endpoints = NoEndpoints
    /\ created = NoneCreated
    /\ builders = EmptyDict
    /\ cur = NoCur
    /\ pc = "idle"
    /\ op = NoOp
    /\ args = <<>>
    /\ attempt = 0
    /\ sent = NoRequest
    /\ log = <<>>
    /\ reply = NoReply
    /\ last = NoResult
    /\ outcome = NoResult
    /\ caller = None
    /\ threads = [t \in Threads |-> Thread("call", None)]

NextThreads ==
    \/ \E t \in Threads : Test(t)
    \/ \E t \in Threads : Construct(t)
    \/ \E t \in Threads : ReturnBuilder(t)
    \/ \E t \in Threads, n \in {1, 5} : WriteThrough(t, n)
    \/ \E t \in Threads : CallAgain(t)

SpecThreads == InitThreads /\ [][NextThreads]_vars

----------------------------------------------------------------------------
(* The date and username filters of the builders *)

DateFormats == <<"%Y", "%Y-%m", "%Y-%m-%d", "%Y-%m-%dT%H:%M:%S", "%Y-%m-%dT%H:%M:%SZ">>

\* validate_date_string for a string argument: some format parses it
validate_date_string(date_str) ==
    IF \E i \in DOMAIN DateFormats : strptime(date_str, DateFormats[i])
    THEN NoExc ELSE ValidationError("date")

\* the ..._between methods of a builder class, by the attribute they bound
\* (captured_between writes min_captured_at and max_captured_at, ...)
BetweenStems(f) ==
    IF f = "images" THEN {"captured_at"}
    ELSE IF f = "sequences" THEN {"captured_at", "created_at"}
    ELSE IF f = "detections" THEN {"created_at", "first_seen_at", "last_seen_at"}
    ELSE {}

BetweenName(stem) ==
    IF stem = "captured_at" THEN "captured_between"
    ELSE IF stem = "created_at" THEN "created_between"
    ELSE IF stem = "first_seen_at" THEN "first_seen_between"
    ELSE "last_seen_between"

MinKey(stem) == "min_" \o stem
MaxKey(stem) == "max_" \o stem

\* "if end_date:"
TruthyDate(d) == d # None /\ d[1] # ""

\* the body of captured_between, created_between, first_seen_between and
\* last_seen_between: the start date is written before the end date is
\* validated
BetweenResult(b, stem, start_date, end_date) ==
    LET w == [b EXCEPT !.filters = Put(@, MinKey(stem), start_date)]
    IN IF validate_date_string(start_date) # NoExc
       THEN [builder |-> b, exc |-> validate_date_string(start_date)]
       ELSE IF ~TruthyDate(end_date) THEN [builder |-> w, exc |-> NoExc]
       ELSE IF validate_date_string(end_date[1]) # NoExc
       THEN [builder |-> w, exc |-> validate_date_string(end_date[1])]
       ELSE [builder |-> [w EXCEPT !.filters = Put(@, MaxKey(stem), end_date[1])],
             exc |-> NoExc]

\* a filter method that leaves the builder as r.builder and raises r.exc
\* or returns self
FilterStep(name, a, r) ==
    BuilderStep(name, a, r.builder,
                IF r.exc # NoExc THEN Raises(r.exc) ELSE Returns(BuilderValue(cur.ref)))

DateInputs == {"2020", "2021-06", "yesterday"}
EndDateInputs == {None, Some("2021-06"), Some("yesterday")}

\* captured_between(start_date, end_date) and its three siblings
Between(stem, start_date, end_date) ==
    /\ cur.ref # None /\ stem \in BetweenStems(Family(cur.ref))
    /\ FilterStep(BetweenName(stem), <<start_date, end_date>>,
                  BetweenResult(builders[cur.ref], stem, start_date, end_date))

\* captured_after(date) = captured_between(date)
CapturedAfter(date) ==
    /\ cur.ref # None /\ Family(cur.ref) \in {"images", "sequences"}
    /\ FilterStep("captured_after", <<date>>,
                  BetweenResult(builders[cur.ref], "captured_at", date, None))

\* captured_before(date)
CapturedBefore(date) ==
    /\ cur.ref # None /\ Family(cur.ref) \in {"images", "sequences"}
    /\ LET b == builders[cur.ref]
           e == validate_date_string(date)
       IN FilterStep("captured_before", <<date>>,
             [builder |-> IF e # NoExc THEN b
                          ELSE [b EXCEPT !.filters = Put(@, MaxKey("captured_at"), date)],
              exc |-> e])

\* an assignment that adds the names to those already in the entry
WriteUsernamesAdding(d, names) ==
    Put(d, "usernames", IF "usernames" \in DOMAIN d THEN d["usernames"] \o names ELSE names)

\* self._filters["usernames"] = ...
WriteUsernames(d, names) == Put(d, "usernames", names)

UsernameInputs == {"", "u"}
UsernamesInputs == {<<>>, <<"v">>, <<"u", "v">>}

\* by_creator_username(username): the entry is the name itself, which is
\* what ",".join gives for one name
ByCreatorUsername(username) ==
    /\ cur.ref # None /\ Family(cur.ref) = "images"
    /\ LET b == builders[cur.ref]
       IN FilterStep("by_creator_username", <<username>>,
             IF username = "" THEN [builder |-> b, exc |-> ValueError]
             ELSE [builder |-> [b EXCEPT !.filters = WriteUsernames(@, Join(<<username>>))],
                   exc |-> NoExc])

\* by_usernames(*usernames)
ByUsernames(usernames) ==
    /\ cur.ref # None /\ Family(cur.ref) = "images"
    /\ LET b == builders[cur.ref]
       IN FilterStep("by_usernames", usernames,
             IF usernames = <<>> THEN [builder |-> b, exc |-> ValueError]
             ELSE [builder |-> [b EXCEPT !.filters = WriteUsernames(@, Join(usernames))],
                   exc |-> NoExc])

\* a client, one of its four filter builders, and the filter methods
InitFilters ==
    /\ max_retries = 0
    /\ retry_backoff = 1
    /\ clients = {1}
    /\ used \in {{<<1, f>>} : f \in FilterFamilies}
    /\ InitIdle

NextFilters ==
    \/ \E c \in Clients, f \in Families : Accessor(c, f)
    \/ \E ll \in CloseToInputs, r \in RadiusInputs : CloseTo(ll[1], ll[2], r)
    \/ \E bb \in BBoxInputs : InBbox(bb)
    \/ \E names \in {<<"id">>} : Fields(names)
    \/ \E f \in FilterFamilies : \E stem \in BetweenStems(f) :
          \E d1 \in DateInputs, d2 \in EndDateInputs : Between(stem, d1, d2)
    \/ \E d \in DateInputs : CapturedAfter(d)
    \/ \E d \in DateInputs : CapturedBefore(d)
    \/ \E u \in UsernameInputs : ByCreatorUsername(u)
    \/ \E us \in UsernamesInputs : ByUsernames(us)
    \/ Return

SpecFilters == InitFilters /\ [][NextFilters]_vars

----------------------------------------------------------------------------
(* VectorTileEndpoint.get_tiles_for_bbox: longitudes in degrees, latitudes *)
(* in millionths of a degree, fractions of the map in units of 10^-8       *)

\* int(): truncation toward zero
Trunc(a, b) == IF a >= 0 THEN a \div b ELSE -((-a) \div b)

FractionUnit == 100000000

\* (1.0 - math.asinh(math.tan(lat_rad)) / math.pi) / 2.0 as the floating
\* point expression evaluates: 85.051129, 85.0511, 60, 0 and their mirror
\* images (at 85.051129 the value is just below 0, at -85.051129 just
\* above 1)
MercatorFraction(lat_deg) ==
    IF lat_deg = 85051129 THEN 0
    ELSE IF lat_deg = 85051100 THEN 92
    ELSE IF lat_deg = 60000000 THEN 29039964
    ELSE IF lat_deg = 0 THEN 50000000
    ELSE IF lat_deg = -60000000 THEN 70960035
    ELSE IF lat_deg = -85051100 THEN 99999907
    ELSE 100000000

Pow2(zoom) == IF zoom = 0 THEN 1 ELSE IF zoom = 1 THEN 2 ELSE 4

\* _deg2num(lat_deg, lon_deg, zoom)
_deg2num(lat_deg, lon_deg, zoom) ==
    [x_tile |-> Trunc((lon_deg + 180) * Pow2(zoom), 360),
     y_tile |-> Trunc(MercatorFraction(lat_deg) * Pow2(zoom), FractionUnit)]

Min(a, b) == IF a > b THEN b ELSE a
Max(a, b) == IF a > b THEN a ELSE b

\* the nested loops over range(x_min, x_max + 1) and range(y_min, y_max + 1)
TileRange(x_min, x_max, y_min, y_max, zoom) ==
    LET rows == y_max - y_min + 1
    IN [i \in 1 .. (x_max - x_min + 1) * rows |->
          [x |-> x_min + ((i - 1) \div rows), y |-> y_min + ((i - 1) % rows), z |-> zoom]]

get_tiles_for_bbox(west, south, east, north, zoom) ==
    LET nw == _deg2num(north, west, zoom)
        se == _deg2num(south, east, zoom)
    IN TileRange(Min(nw.x_tile, se.x_tile), Max(nw.x_tile, se.x_tile),
                 Min(se.y_tile, nw.y_tile), Max(se.y_tile, nw.y_tile), zoom)

BboxLongitudeInputs == {-180, -90, 0, 179, 180}
BboxLatitudeInputs == {85051129, 85051100, 60000000, 0, -60000000, -85051100, -85051129}
ZoomInputs == {0, 1, 2}

GetTilesForBbox(west, south, east, north, zoom) ==
    ParserCall("get_tiles_for_bbox", <<west, south, east, north, zoom>>,
               Returns(get_tiles_for_bbox(west, south, east, north, zoom)))

NextBboxTiles ==
    \/ \E west \in BboxLongitudeInputs, east \in BboxLongitudeInputs,
          south \in BboxLatitudeInputs, north \in BboxLatitudeInputs,
          zoom \in ZoomInputs : GetTilesForBbox(west, south, east, north, zoom)
    \/ Return

SpecBboxTiles == InitParsers /\ [][NextBboxTiles]_vars

----------------------------------------------------------------------------
(* A client and the operations of its vector tile builder *)

InitTiles ==
    /\ max_retries \in 0 .. MaxOpRetries
    /\ retry_backoff = 1
    /\ clients = {1}
    /\ used = {<<1, "vector_tiles">>}
    /\ InitIdle

NextTiles ==
    \/ Accessor(1, "vector_tiles")
    \/ \E layer \in LayerInputs, z \in TileZInputs, x \in TileXYInputs,
          y \in TileXYInputs, format \in FormatInputs : GetTile(layer, z, x, y, format)
    \/ \E name \in FixedBaseTileOps, z \in TileZInputs, x \in TileXYInputs,
          y \in TileXYInputs, format \in FormatInputs :
             GetFixedBaseTiles(name, z, x, y, format)
    \/ \E o \in OpOutcomes : Attempt(o)
    \/ Return

SpecTiles == InitTiles /\ [][NextTiles]_vars

----------------------------------------------------------------------------
(* Two clients and their accessors *)

InitAccessors ==
    /\ max_retries = 0
    /\ retry_backoff = 1
    /\ clients = Clients
    /\ used = Clients \X Families
    /\ InitIdle

NextAccessors == \E c \in Clients, f \in Families : Accessor(c, f)

SpecAccessors == InitAccessors /\ [][NextAccessors]_vars

----------------------------------------------------------------------------
(* Properties of the builders *)

Filters(ref) == builders[ref].filters
HasKey(d, k) == k \in DOMAIN d

\* C5: every public operation returns a result or raises an error of one of
\* the seven typed kinds; no exception of another kind reaches the caller.
C5_OnlyTypedErrors ==
    (pc = "done" /\ ~outcome.ok) => outcome.exc.kind \in TypedErrors

\* C6: a terminal operation leaves the builder's filter mapping and field
\* list as they were, whether it returns or raises; so the parameters that
\* get() sends hold every filter written on the builder so far, also those
\* written before an earlier get().
C6_TerminalKeepsFilters ==
    /\ [][(op.name \in TerminalOps \/ op'.name \in TerminalOps)
            => builders' = builders]_vars
    /\ []((op.name = "get" /\ pc \in {"request", "done"}) =>
            \A k \in DOMAIN Filters(op.ref) :
                /\ HasKey(sent.params[1], k)
                /\ sent.params[1][k] = Filters(op.ref)[k])

C6_Witness ==
    /\ pc = "done" /\ op.name = "get" /\ ~outcome.ok /\ Calls = 2
    /\ Family(op.ref) = "images"
    /\ builders[op.ref].fields # <<>>
    /\ HasKey(Filters(op.ref), "bbox") /\ HasKey(Filters(op.ref), "limit")
    /\ HasKey(sent.params[1], "bbox") /\ sent.params[1]["limit"] = 5

Slots == Clients \X Families
EndpointOf(slot) == endpoints[slot[1]][slot[2]]

\* C7: for each accessor the builder is created at the first call and every
\* later call returns that instance; a client never has more than one
\* builder per family, and two clients never share one.
C7_AccessorSingleton ==
    /\ [](/\ \A sl \in Slots : created[sl[1]][sl[2]] <= 1
          /\ \A sl \in Slots : EndpointOf(sl) # None =>
                /\ HasKey(builders, EndpointOf(sl))
                /\ builders[EndpointOf(sl)].client = sl[1]
          /\ \A s1 \in Slots, s2 \in Slots :
                (s1 # s2 /\ EndpointOf(s1) # None) => EndpointOf(s1) # EndpointOf(s2)
          /\ cur.ref # None => cur.ref = EndpointOf(cur.slot))
    /\ [][\A sl \in Slots : EndpointOf(sl) # None =>
            /\ endpoints'[sl[1]][sl[2]] = EndpointOf(sl)
            /\ (cur'.slot = sl /\ cur' # cur) => (cur'.ref = EndpointOf(sl) /\ cur'.cached)]_vars

C7_Witness ==
    /\ cur.cached /\ cur.slot = <<2, "images">>
    /\ cur.ref = EndpointOf(<<2, "images">>)
    /\ EndpointOf(<<1, "images">>) # None
    /\ EndpointOf(<<1, "vector_tiles">>) # None

\* C8: on each of the five builders get_by_id with an empty id raises
\* ValidationError.
C8_EmptyIdValidationError ==
    (pc = "done" /\ op.name = "get_by_id" /\ op.id = "") =>
        (~outcome.ok /\ outcome.exc.kind = "ValidationError")

\* C9: on each of the five builders get_by_id with an empty id fails before
\* any transport call: no transport call and no sleep is made, and the
\* builder's filter mapping and field list are unchanged.
C9_EmptyIdNoTransport ==
    [][(pc = "idle" /\ op'.name = "get_by_id" /\ op'.id = "")
         => /\ pc' = "done" /\ ~outcome'.ok
            /\ log' = log /\ sent' = sent /\ attempt' = attempt
            /\ builders' = builders]_vars

C9_Witness ==
    /\ pc = "done" /\ op.name = "get_by_id" /\ op.id = "" /\ ~outcome.ok
    /\ Calls = 0 /\ Sleeps = 0 /\ sent = NoRequest
    /\ Family(op.ref) = "organizations"
    /\ builders[op.ref].fields # <<>>

\* the list fields(n1, ..., nk) leaves on the builder
FieldsResult(names) ==
    IF \E i \in DOMAIN names : names[i] = "all" THEN <<"all">> ELSE names

\* C15: on every builder fields(n1, ..., nk) replaces the field list: after
\* the call the list is exactly [n1, ..., nk] in call order, or exactly
\* ["all"] when some ni is "all", whatever it was before; so a second call
\* with the same arguments changes nothing; fields never changes the
\* filter mapping.
C15_FieldsReplaces ==
    /\ []((op.name = "fields" /\ pc = "done") =>
            /\ outcome.ok
            /\ builders[op.ref].fields = FieldsResult(args))
    /\ [][(pc = "idle" /\ op'.name = "fields") =>
            /\ builders'[cur.ref].filters = builders[cur.ref].filters
            /\ builders[cur.ref].fields = FieldsResult(args') => builders' = builders]_vars

C15_Witness ==
    /\ op.name = "fields" /\ pc = "done" /\ Family(op.ref) = "images"
    /\ args = <<"id", "all">> /\ builders[op.ref].fields = <<"all">>
    /\ HasKey(Filters(op.ref), "bbox") /\ HasKey(Filters(op.ref), "limit")

\* C16: on the Image, Sequence, Detection and MapFeature builders limit(n)
\* fails for every n <= 0 and leaves the builder as it was; for n > 0 it
\* sets the filter entry "limit" to n, changes no other entry and returns
\* the builder it was called on.
C16_LimitPositive ==
    /\ []((op.name = "limit" /\ pc = "done") =>
            IF args[1] <= 0 THEN ~outcome.ok
            ELSE /\ outcome.ok
                 /\ outcome.value = BuilderValue(op.ref) /\ op.ref = cur.ref
                 /\ HasKey(Filters(op.ref), "limit")
                 /\ Filters(op.ref)["limit"] = args[1])
    /\ [][(pc = "idle" /\ op'.name = "limit") =>
            IF args'[1] <= 0 THEN builders' = builders
            ELSE /\ DOMAIN builders'[cur.ref].filters
                      = (DOMAIN builders[cur.ref].filters) \cup {"limit"}
                 /\ \A k \in (DOMAIN builders[cur.ref].filters) \ {"limit"} :
                       builders'[cur.ref].filters[k] = builders[cur.ref].filters[k]
                 /\ builders'[cur.ref].fields = builders[cur.ref].fields
                 /\ cur' = cur /\ endpoints' = endpoints]_vars

C16_Witness ==
    /\ op.name = "limit" /\ pc = "done" /\ outcome.ok
    /\ Family(op.ref) = "map_features"
    /\ args = <<1>> /\ Filters(op.ref)["limit"] = 1
    /\ HasKey(Filters(op.ref), "bbox") /\ HasKey(Filters(op.ref), "closeto")

\* C17: get_by_id(id, fields) with a non-empty id sends as "fields" the
\* joined explicit argument when that is not empty, else the joined field
\* list of the builder when that is not empty, else no "fields" parameter;
\* the builder's list never overrides the argument.
C17_ByIdFieldsPrecedence ==
    (op.name = "get_by_id" /\ args[1] # "" /\ pc \in {"request", "done"}) =>
        /\ sent.params # None
        /\ IF args[2] # None /\ args[2][1] # <<>>
           THEN /\ HasKey(sent.params[1], "fields")
                /\ sent.params[1]["fields"] = args[2][1]
           ELSE IF builders[op.ref].fields # <<>>
           THEN /\ HasKey(sent.params[1], "fields")
                /\ sent.params[1]["fields"] = builders[op.ref].fields
           ELSE ~HasKey(sent.params[1], "fields")

C17_Witness ==
    /\ op.name = "get_by_id" /\ pc = "done" /\ Calls = 1
    /\ Family(op.ref) = "organizations"
    /\ args = <<"a", Some(<<"geometry">>)>>
    /\ builders[op.ref].fields = <<"id", "geometry">>
    /\ sent.params[1]["fields"] = <<"geometry">>

\* what a successful close_to(latitude, longitude, radius) has written
ProximityWritten(f, a, ref) ==
    /\ IF Family(ref) = "map_features"
       THEN HasKey(f, "closeto") /\ f["closeto"] = <<a[2], a[1]>>
       ELSE /\ HasKey(f, "latitude") /\ f["latitude"] = a[1]
            /\ HasKey(f, "longitude") /\ f["longitude"] = a[2]
    /\ a[3] # None => (HasKey(f, "radius") /\ f["radius"] = a[3][1])

ProximityKeys == {"longitude", "latitude", "closeto", "radius"}

\* C18: on the Image, Sequence, Detection and MapFeature builders a valid
\* close_to writes the proximity entries and a valid in_bbox the bbox
\* entry; neither call removes or overwrites the entries of the other,
\* whichever came first, and a following get() sends both.
C18_ProximityAndBboxCoexist ==
    /\ []((pc = "done" /\ outcome.ok /\ op.name = "close_to") =>
            ProximityWritten(Filters(op.ref), args, op.ref))
    /\ []((pc = "done" /\ outcome.ok /\ op.name = "in_bbox") =>
            (HasKey(Filters(op.ref), "bbox") /\ Filters(op.ref)["bbox"] = args))
    /\ [][(pc = "idle" /\ op'.name = "close_to") =>
            (HasKey(builders[cur.ref].filters, "bbox") =>
                /\ HasKey(builders'[cur.ref].filters, "bbox")
                /\ builders'[cur.ref].filters["bbox"] = builders[cur.ref].filters["bbox"])]_vars
    /\ [][(pc = "idle" /\ op'.name = "in_bbox") =>
            \A k \in (DOMAIN builders[cur.ref].filters) \cap ProximityKeys :
                /\ HasKey(builders'[cur.ref].filters, k)
                /\ builders'[cur.ref].filters[k] = builders[cur.ref].filters[k]]_vars
    /\ []((op.name = "get" /\ pc \in {"request", "done"}) =>
            \A k \in (DOMAIN Filters(op.ref)) \cap (ProximityKeys \cup {"bbox"}) :
                /\ HasKey(sent.params[1], k)
                /\ sent.params[1][k] = Filters(op.ref)[k])

C18_Witness ==
    /\ op.name = "get" /\ pc = "done" /\ Calls = 1
    /\ Family(op.ref) = "images"
    /\ DOMAIN Filters(op.ref) = {"bbox", "latitude", "longitude", "radius"}
    /\ sent.params[1]["bbox"] = <<0, 0, 1, 1>>
    /\ sent.params[1]["latitude"] = 30 /\ sent.params[1]["longitude"] = 31
    /\ sent.params[1]["radius"] = 100

----------------------------------------------------------------------------
(* Properties of the vector tile builder *)

TileOps == {"get_tile"} \cup FixedBaseTileOps
TileInFlight == op.name \in TileOps /\ sent # NoRequest

\* C12: every request of get_tile and of the coverage, computed coverage,
\* map feature point and map feature traffic sign methods carries the
\* credential as the access_token query parameter and goes out without an
\* Authorization header, counting the headers of the request and the
\* default headers of the session.
C12_TokenInQueryOnly ==
    TileInFlight =>
        /\ sent.params # None
        /\ HasKey(sent.params[1], "access_token")
        /\ sent.params[1]["access_token"] = ApiKey
        /\ ~HasKey(sent.headers, "Authorization")
        /\ ~HasKey(TransportHeaders(sent), "Authorization")

\* the base URL followed by the endpoint's segments
Concat(base, endpoint) == [host |-> base.host, path |-> base.path \o endpoint]

\* the endpoint a tile method builds from its arguments
EndpointOfTileCall(name, a) ==
    IF name = "get_tile" THEN TileEndpoint(<<a[1]>>, a[2], a[3], a[4], a[5])
    ELSE TileEndpoint(<<>>, a[1], a[2], a[3], a[4])

\* C13: the URL a request is sent to is its base URL followed by the
\* endpoint, every path segment of the base kept: get_tile requests
\* VECTOR_TILES_URL + /{layer}/{z}/{x}/{y}, and for one (z, x, y) the four
\* methods with a base URL of their own request four different URLs, each
\* beginning with its own base URL.
C13_UrlKeepsBase ==
    TileInFlight =>
        /\ sent.url = Concat(TileBaseOf(op.name), EndpointOfTileCall(op.name, args))
        /\ op.name \in FixedBaseTileOps =>
              \A other \in FixedBaseTileOps \ {op.name} :
                 BuildRequest("GET", EndpointOfTileCall(other, args), None,
                              Some(TileBaseOf(other)), FALSE).url # sent.url

\* the arguments get_tile accepts
ValidTile(a) ==
    /\ a[1] \in {"image", "sequence", "overview", "traffic_sign", "map_feature"}
    /\ 0 <= a[2] /\ a[2] <= 14
    /\ 0 <= a[3] /\ a[3] < 2 ^ a[2]
    /\ 0 <= a[4] /\ a[4] < 2 ^ a[2]

\* C14: get_tile(layer, z, x, y) makes a transport call exactly when layer
\* is one of image, sequence, overview, traffic_sign, map_feature and
\* 0 <= z <= 14 and 0 <= x < 2^z and 0 <= y < 2^z; for every other
\* combination it fails with no transport call (the client's max_retries is
\* not negative).
C14_TileCallIffValid ==
    /\ []((op.name = "get_tile" /\ pc = "done") =>
            /\ Calls >= 1 <=> ValidTile(args)
            /\ ~ValidTile(args) =>
                  (~outcome.ok /\ sent = NoRequest /\ log = <<>>))
    /\ [][(pc = "idle" /\ op'.name = "get_tile")
            => (pc' = "request" <=> ValidTile(args'))]_vars

C14_Witness ==
    /\ op.name = "get_tile" /\ pc = "done"
    /\ args = <<"map_feature", 14, 16383, 0, "mvt">>
    /\ Calls = 2 /\ outcome.ok /\ outcome.value.kind = "content"

----------------------------------------------------------------------------
(* Properties of the validators *)

InRange(latitude, longitude) ==
    /\ -90 <= latitude /\ latitude <= 90
    /\ -180 <= longitude /\ longitude <= 180

\* C19: for numeric (lat, lon) validate_coordinates returns normally
\* exactly when -90 <= lat <= 90 and -180 <= lon <= 180; otherwise it
\* raises ValidationError, with field "latitude" when the latitude is out of
\* range and "longitude" when only the longitude is.
C19_CoordinatesRange ==
    (op.name = "validate_coordinates" /\ pc = "done") =>
        /\ outcome.ok <=> InRange(args[1], args[2])
        /\ ~outcome.ok =>
              /\ outcome.exc.kind = "ValidationError"
              /\ outcome.exc.field =
                    IF args[1] < -90 \/ args[1] > 90 THEN "latitude" ELSE "longitude"

C19_Witness ==
    /\ op.name = "validate_coordinates" /\ pc = "done"
    /\ args = <<90, 181>> /\ ~outcome.ok /\ outcome.exc.field = "longitude"

\* C20: for numeric (west, south, east, north) validate_bbox returns
\* normally exactly when the corners (south, west) and (north, east) are
\* valid coordinates and west < east and south < north; west = east fails,
\* south = north fails, and every failure is a ValidationError.
C20_BboxValid ==
    (op.name = "validate_bbox" /\ pc = "done") =>
        LET west == args[1]
            south == args[2]
            east == args[3]
            north == args[4]
        IN /\ outcome.ok <=> /\ InRange(south, west) /\ InRange(north, east)
                             /\ west < east /\ south < north
           /\ west = east => ~outcome.ok
           /\ south = north => ~outcome.ok
           /\ ~outcome.ok => outcome.exc.kind = "ValidationError"

C20_Witness ==
    /\ op.name = "validate_bbox" /\ pc = "done"
    /\ args = <<-180, 0, 180, 0>> /\ ~outcome.ok /\ outcome.exc.field = "bbox"

IsRange(a) == a.type = "tuple" /\ Len(a.v) = 2
CompassCall == op.name = "validate_compass_angle" /\ pc = "done"

\* C21: a range (min, max) of numbers is accepted exactly when
\* 0 <= min <= 360 and 0 <= max <= 360 and (min <= max or (min > 180 and
\* max < 180)); every other range with min > max fails with
\* ValidationError; a single angle is accepted exactly when it lies in
\* [0, 360].
C21_CompassAngleRule ==
    CompassCall =>
        /\ IsRange(args) =>
              LET min == args.v[1]
                  max == args.v[2]
              IN outcome.ok <=> /\ 0 <= min /\ min <= 360
                                /\ 0 <= max /\ max <= 360
                                /\ min <= max \/ (min > 180 /\ max < 180)
        /\ args.type = "number" =>
              (outcome.ok <=> (0 <= args.v[1] /\ args.v[1] <= 360))
        /\ ~outcome.ok => outcome.exc.kind = "ValidationError"

C21_Witness ==
    /\ CompassCall /\ args = Tuple(<<200, 180>>)
    /\ ~outcome.ok /\ outcome.exc.field = "compass_angle"

\* C22 as stated: validate_compass_angle accepts the range (315, 45) and
\* rejects the range (45, 315).
C22_RejectsAscending ==
    CompassCall =>
        /\ args = Tuple(<<315, 45>>) => outcome.ok
        /\ args = Tuple(<<45, 315>>) => ~outcome.ok

\* C22 amended: validate_compass_angle accepts the wraparound range
\* (315, 45) and also accepts (45, 315), an ascending range.
C22_AcceptsBoth ==
    CompassCall =>
        /\ args = Tuple(<<315, 45>>) => outcome.ok
        /\ args = Tuple(<<45, 315>>) => outcome.ok

C22_Witness == CompassCall /\ args = Tuple(<<45, 315>>) /\ outcome.ok

\* C23 as stated: validate_compass_angle rejects the descending range
\* (200, 170); the descending ranges it accepts all have min > 180 and
\* max < 180.
C23_RejectsBand ==
    CompassCall =>
        /\ args = Tuple(<<200, 170>>) => ~outcome.ok
        /\ (IsRange(args) /\ args.v[1] > args.v[2] /\ outcome.ok)
              => (args.v[1] > 180 /\ args.v[2] < 180)

\* C23 amended: validate_compass_angle accepts the descending range
\* (200, 170), which has min > 180 and max < 180; the descending ranges it
\* accepts all have min > 180 and max < 180.
C23_AcceptsBand ==
    CompassCall =>
        /\ args = Tuple(<<200, 170>>) => outcome.ok
        /\ (IsRange(args) /\ args.v[1] > args.v[2] /\ outcome.ok)
              => (args.v[1] > 180 /\ args.v[2] < 180)

C23_Witness == CompassCall /\ args = Tuple(<<200, 170>>) /\ outcome.ok

----------------------------------------------------------------------------
(* Properties of the parsers *)

\* what a finished parser call returned
Parsed == outcome.value.data[1]

\* the nested "properties" object of a record, {} when it has none
NestedProperties(data) == DictGet(data, "properties", Object(EmptyDict)).v

EnvelopeCall == op.name = "APIResponse.from_dict" /\ pc = "done"

\* C24: for every envelope and entity kind APIResponse.from_dict returns
\* data with one parsed entity per element of features, in the same order
\* (empty when features is absent); total_count is len(data) when the
\* envelope has none, has_more is false when absent, next_cursor is null
\* when absent.
C24_EnvelopeDefaults ==
    EnvelopeCall =>
        LET envelope == args[1]
            features == DictGet(envelope, "features", List(<<>>)).v
        IN /\ outcome.ok
           /\ Len(Parsed.v.data) = Len(features)
           /\ \A i \in DOMAIN features :
                 /\ Parsed.v.data[i].t = args[2]
                 /\ Parsed.v.data[i].v["id"]
                       = DictGet(NestedProperties(features[i].v), "id", Str(""))
           /\ ~HasKey(envelope, "total_count")
                 => Parsed.v.total_count = IntValue(Len(Parsed.v.data))
           /\ ~HasKey(envelope, "has_more") => Parsed.v.has_more = Bool(FALSE)
           /\ ~HasKey(envelope, "next_cursor") => Parsed.v.next_cursor = Null

EntityCall == op.name = "from_dict" /\ pc = "done"

\* C25: for each of the five entity parsers a record with neither a
\* "properties" key nor a "geometry" key parses without raising to an
\* entity whose id is the empty string, whose geometry is null and whose
\* other optional fields are absent.
C25_BareRecordParses ==
    (EntityCall /\ ~HasKey(args[2], "properties") /\ ~HasKey(args[2], "geometry")) =>
        /\ outcome.ok
        /\ Parsed.v["id"] = Str("")
        /\ \A k \in GeometryKeys(args[1]) : Parsed.v[k].t = "null"
        /\ \A k \in ScalarKeys(args[1]) \cup TimestampKeys(args[1]) :
              Parsed.v[k].t = "null"
        /\ \A k \in ListKeys(args[1]) : Parsed.v[k] = List(<<>>)

\* C26: each of the five entity parsers takes the id and the scalar fields
\* from the record's nested "properties" object: the id of the entity is
\* the id found there, and keys beside "properties" at the top level of the
\* record set no scalar field.
C26_FieldsFromProperties ==
    (EntityCall /\ HasKey(args[2], "properties")) =>
        /\ outcome.ok
        /\ HasKey(NestedProperties(args[2]), "id")
              => Parsed.v["id"] = NestedProperties(args[2])["id"]
        /\ \A k \in ScalarKeys(args[1]) :
              Parsed.v[k] = DictGet(NestedProperties(args[2]), k, Null)

AcceptedTimestamps ==
    {"2020-01-02T03:04:05.678Z", "2020-01-02T03:04:05Z", "2020-01-02T03:04:05",
     "2020-01-02 03:04:05", "2020-01-02"}

\* C27: timestamp parsing is best-effort: for every raw value (absent,
\* empty, a string in an accepted format, a string in none, a value that
\* is not a string) format_timestamp and the entity parsers never raise;
\* the result is null unless the value is a string in an accepted format,
\* and every result that is not null is a UTC instant.
C27_TimestampBestEffort ==
    /\ (op.name = "format_timestamp" /\ pc = "done") =>
          /\ outcome.ok
          /\ Parsed.t = "datetime"
                <=> (args[1].t = "str" /\ args[1].v \in AcceptedTimestamps)
          /\ Parsed.t # "datetime" => Parsed.t = "null"
          /\ Parsed.t = "datetime" => Parsed.v[2] = "UTC"
    /\ EntityCall =>
          /\ outcome.ok
          /\ \A k \in TimestampKeys(args[1]) :
                Parsed.v[k].t = "datetime" => Parsed.v[k].v[2] = "UTC"

----------------------------------------------------------------------------
(* Properties of download_image *)

DownloadCall == op.name = "download_image"
FetchesOf(l) == {i \in DOMAIN l : l[i].ev = "fetch"}
Fetches == FetchesOf(log)

\* the metadata request of download_image(id, size)
MetadataRequest ==
    /\ sent.method = "GET"
    /\ sent.url = urljoin(BASE_URL, <<args[1]>>)
    /\ sent.params = Some(Put(EmptyDict, "fields", <<args[2]>>))

\* the states of a download_image call
DownloadStates ==
    DownloadCall =>
        /\ pc \in {"request", "fetch"} => MetadataRequest /\ Fetches = {}
        /\ pc = "fetch" =>
              /\ log # <<>> /\ log[Len(log)] = CallEvent(attempt, TRUE)
              /\ ThumbValue(reply.response.body, args[2]) \notin {None, Some(EmptyUrl)}
        /\ (pc = "done" /\ Fetches # {}) =>
              /\ Fetches = {Len(log)}
              /\ Len(log) >= 2 /\ log[Len(log) - 1] = CallEvent(attempt, TRUE)
              /\ sent.url = ThumbUrl(args[2])
        /\ (pc = "done" /\ Fetches = {} /\ last.ok /\ HasGet(last.value)
              /\ ThumbValue(reply.response.body, args[2]) \in {None, Some(EmptyUrl)}) =>
              outcome = Raises(ValueError)

\* the steps of a download_image call: only the step that leaves the
\* metadata call behind fetches, and it fetches the URL the returned
\* entity holds in the size field
DownloadSteps ==
    /\ FetchesOf(log') \ FetchesOf(log) # {} =>
          /\ DownloadCall /\ pc = "fetch" /\ pc' = "done"
          /\ sent'.method = "GET"
          /\ Some(sent'.url) = ThumbValue(reply.response.body, args[2])
    /\ (pc = "fetch" /\ pc' # "fetch") => FetchesOf(log') = {Len(log) + 1}

\* C28: download_image(id, size) first issues the metadata GET for /{id}
\* with the fields parameter equal to size alone; the byte fetch happens
\* strictly after that call returned, only against the URL the entity
\* holds in its size field; when that field is absent or empty the
\* operation fails and no byte fetch happens.
C28_MetadataThenFetch == []DownloadStates /\ [][DownloadSteps]_vars

C28_Witness ==
    /\ DownloadCall /\ pc = "done" /\ args = <<"a", "thumb_256_url">>
    /\ builders[op.ref].fields = <<"id", "geometry">>
    /\ log = <<CallEvent(0, FALSE), SleepEvent(1), CallEvent(1, TRUE), FetchEvent(TRUE)>>
    /\ sent.url = ThumbUrl("thumb_256_url")
    /\ outcome = Returns(Value("content", -1))

\* C29: every HTTP call made for a public operation, the byte fetch of
\* download_image included, is subject to the retry policy: a byte fetch
\* that fails is attempted max_retries + 1 times before its failure
\* reaches the caller.
C29_FetchRetried ==
    (DownloadCall /\ pc = "done" /\ Fetches # {} /\ ~outcome.ok) =>
        Cardinality(Fetches) = max_retries + 1

----------------------------------------------------------------------------
(* Properties of get_tiles_for_bbox *)

\* a call for the whole globe at zoom 1, the latitudes at the Web-Mercator
\* limit (85.051129 or its four-decimal form 85.0511)
WholeGlobeCall ==
    /\ op.name = "get_tiles_for_bbox" /\ pc = "done"
    /\ args[1] = -180 /\ args[3] = 180 /\ args[5] = 1
    /\ args[4] \in {85051129, 85051100} /\ args[2] = -args[4]

\* C30: get_tiles_for_bbox at zoom 1 for the whole globe returns exactly
\* the 4 tiles with x in {0, 1} and y in {0, 1}, each once, and no tile
\* with x or y outside 0..1.
C30_WholeGlobeFourTiles ==
    WholeGlobeCall =>
        /\ outcome.ok
        /\ Len(Parsed) = 4
        /\ {Parsed[i] : i \in DOMAIN Parsed}
              = {[x |-> x, y |-> y, z |-> 1] : x \in {0, 1}, y \in {0, 1}}

----------------------------------------------------------------------------
(* Termination of request() and of the terminal operations *)

\* every transport call returns or raises: an attempt that is due is made
FairnessRetry == WF_vars(\E o \in TransportOutcomes : Attempt(o))
FairSpecRetry == SpecRetry /\ FairnessRetry

----------------------------------------------------------------------------
(* Properties of the filter methods *)

\* a step in which a filter method is called and raises, or returns
FilterRaises == pc = "idle" /\ pc' = "done" /\ ~outcome'.ok
FilterReturns == pc = "idle" /\ pc' = "done" /\ outcome'.ok

\* C32: a filter method call that raises leaves the builder's filter
\* mapping and field list exactly as they were before the call, for every
\* filter method of every builder (close_to with valid coordinates and a
\* radius <= 0, the ..._between methods with a valid start date and an
\* invalid end date included).
C32_NoPartialWrite == [][FilterRaises => builders' = builders]_vars

\* the filter entries a call is documented to write
Written(name, a, f) ==
    IF name = "close_to"
    THEN (IF f = "map_features" THEN {"closeto"} ELSE {"longitude", "latitude"})
         \cup (IF a[3] # None THEN {"radius"} ELSE {})
    ELSE IF name = "in_bbox" THEN {"bbox"}
    ELSE IF name = "captured_between"
    THEN {"min_captured_at"} \cup (IF TruthyDate(a[2]) THEN {"max_captured_at"} ELSE {})
    ELSE IF name = "created_between"
    THEN {"min_created_at"} \cup (IF TruthyDate(a[2]) THEN {"max_created_at"} ELSE {})
    ELSE IF name = "first_seen_between"
    THEN {"min_first_seen_at"} \cup (IF TruthyDate(a[2]) THEN {"max_first_seen_at"} ELSE {})
    ELSE IF name = "last_seen_between"
    THEN {"min_last_seen_at"} \cup (IF TruthyDate(a[2]) THEN {"max_last_seen_at"} ELSE {})
    ELSE IF name = "captured_after" THEN {"min_captured_at"}
    ELSE IF name = "captured_before" THEN {"max_captured_at"}
    ELSE IF name \in {"by_creator_username", "by_usernames"} THEN {"usernames"}
    ELSE {}

\* the step of a successful filter call on the builder with filters and
\* fields before, and after
FrameKept(before, after, name, a, f) ==
    /\ \A k \in DOMAIN before.filters \ Written(name, a, f) :
          k \in DOMAIN after.filters /\ after.filters[k] = before.filters[k]
    /\ DOMAIN after.filters \subseteq DOMAIN before.filters \cup Written(name, a, f)
    /\ name # "fields" => after.fields = before.fields
    /\ name = "captured_after" => after.filters["min_captured_at"] = a[1]
    /\ name = "captured_before" => after.filters["max_captured_at"] = a[1]
    /\ name = "by_creator_username" => after.filters["usernames"] = <<a[1]>>
    /\ name = "by_usernames" => after.filters["usernames"] = a

\* C38: each successful filter method call changes only the filter entries
\* it is documented to write; every other entry and the field list keep
\* their values, and a second call of a filter keeps only the latest value
\* (captured_after rewrites min_captured_at and leaves max_captured_at;
\* by_creator_username and by_usernames write the same usernames entry).
C38_FilterFrame ==
    [][FilterReturns =>
         /\ DOMAIN builders' = DOMAIN builders
         /\ \A ref \in DOMAIN builders \ {op'.ref} : builders'[ref] = builders[ref]
         /\ FrameKept(builders[op'.ref], builders'[op'.ref], op'.name, args',
                      Family(op'.ref))]_vars

C38_Witness ==
    /\ pc = "done" /\ op.name = "by_usernames" /\ args = <<"u", "v">> /\ outcome.ok
    /\ DOMAIN builders[op.ref].filters
          = {"usernames", "min_captured_at", "max_captured_at", "longitude", "latitude"}
    /\ builders[op.ref].filters["usernames"] = <<"u", "v">>
    /\ builders[op.ref].fields = <<"id">>

----------------------------------------------------------------------------
(* Properties of the tile methods: what they return, what they check *)

\* the last transport call of the operation got a 2xx response
LastReply2xx ==
    /\ Calls >= 1 /\ ~reply.raises
    /\ 200 <= reply.response.status /\ reply.response.status < 300

\* C33: for every 2xx response get_tile and the four methods with a base
\* URL of their own return exactly the bytes of the response body,
\* whatever the body is (tile data, empty, or text that is valid JSON);
\* they never return empty bytes for a body that is not empty.
C33_TileBytes ==
    (op.name \in TileOps /\ pc = "done" /\ LastReply2xx) =>
        /\ outcome.ok
        /\ outcome.value.kind = "content"
        /\ outcome.value.at = attempt

\* the z, x, y of a tile call
TileCoordinates(name, a) ==
    IF name = "get_tile" THEN <<a[2], a[3], a[4]>> ELSE <<a[1], a[2], a[3]>>

InTileRange(zxy) ==
    /\ 0 <= zxy[1] /\ zxy[1] <= 14
    /\ 0 <= zxy[2] /\ zxy[2] < 2 ^ zxy[1]
    /\ 0 <= zxy[3] /\ zxy[3] < 2 ^ zxy[1]

\* C35: each of the five tile fetch operations issues a transport call
\* only for coordinates with 0 <= z <= 14, 0 <= x < 2^z and 0 <= y < 2^z;
\* coordinates out of range fail before any transport call.
C35_TileCoordinatesChecked ==
    (op.name \in TileOps /\ pc \in {"request", "done"}) =>
        /\ (pc = "request" \/ Calls >= 1) => InTileRange(TileCoordinates(op.name, args))
        /\ (pc = "done" /\ ~InTileRange(TileCoordinates(op.name, args))) =>
              (~outcome.ok /\ log = <<>> /\ sent = NoRequest)

----------------------------------------------------------------------------
(* Properties of the limit parameter *)

\* the limit argument of the operation in progress (None when it has none
\* or was called without)
LimitArgument ==
    IF op.name = "get_images" THEN args[3]
    ELSE IF op.name \in {"get_organization_images", "get_organization_sequences",
                         "get_organization_detections"} THEN args[2]
    ELSE None

\* C34: every request a builder operation sends with a limit parameter
\* carries a limit > 0; a limit <= 0 given to limit(n), get_images or
\* get_organization_images/sequences/detections is rejected with an
\* error: it is neither dropped from the request nor sent to the server.
C34_LimitPositiveEverywhere ==
    /\ (op.ref # None /\ sent # NoRequest /\ sent.params # None
          /\ "limit" \in DOMAIN sent.params[1]) => sent.params[1]["limit"] > 0
    /\ (op.name = "limit" /\ pc = "done" /\ args[1] <= 0) => ~outcome.ok
    /\ (op.ref # None /\ pc \in {"request", "done"} /\ LimitArgument # None
          /\ LimitArgument[1] <= 0) =>
          (pc = "done" /\ ~outcome.ok /\ sent = NoRequest /\ log = <<>>)

----------------------------------------------------------------------------
(* Properties of a client with a negative max_retries *)

\* C36: with a negative max_retries request makes no transport attempt
\* and no sleep, raises no error and returns None to its caller; with
\* max_retries >= 0 at least one transport attempt is always made.
C36_NegativeRetries ==
    /\ (op.name = "request" /\ pc = "request") => max_retries >= 0
    /\ (op.name = "request" /\ pc = "done") =>
          IF max_retries < 0
          THEN /\ log = <<>> /\ attempt = 0 /\ reply = NoReply
               /\ outcome = Returns(Value("none", -1))
          ELSE Calls >= 1

C36_Witness ==
    /\ op.name = "request" /\ pc = "done" /\ max_retries = -1
    /\ sent.url = urljoin(BASE_URL, <<"images">>)
    /\ log = <<>> /\ outcome.ok /\ outcome.value.kind = "none"

----------------------------------------------------------------------------
(* Properties of the parameters of request() *)

\* C37: request never modifies the query parameter mapping its caller
\* passed in: after it returned or raised, in header mode and in query
\* token mode alike, the caller's mapping has the keys and values it had
\* before the call, and in header mode the credential is not among the
\* query parameters sent.
C37_CallerParamsKept ==
    (op.name = "request" /\ pc \in {"request", "done"}) =>
        /\ caller = args[1]
        /\ args[3] => (sent.params = None \/ "access_token" \notin DOMAIN sent.params[1])

----------------------------------------------------------------------------
(* Two threads making the first call to one accessor *)

BothHave == \A t \in Threads : threads[t].at = "has"

CreatedHere == created[TheSlot[1]][TheSlot[2]]

Cached == endpoints[TheSlot[1]][TheSlot[2]]

====
